---------------------------- MODULE Spec2Model ----------------------------
(***************************************************************************)
(* Model of the query-orchestration layer of financial-analyst-ai:         *)
(*   src/agent/financial_agent.py   FinancialAnalystAgent                   *)
(*   src/rag_engine/vector_store.py RAGEngine (the retrieval facade)        *)
(*                                                                         *)
(* Text is a sequence of one-character strings.  The fixed messages of the *)
(* program are sequences of one or more whole phrases: nothing in the      *)
(* program looks inside them.                                              *)
(***************************************************************************)
EXTENDS Integers, Sequences, FiniteSets, TLC

(***************************************************************************)
(* Bounds of the model.                                                    *)
(***************************************************************************)
\* Clock value when the agent is constructed (time.time() is far from 0).
StartTime == 100
\* The clock moves in steps of TickStep seconds while nothing sleeps.
TickStep == 5
\* No tick and no new query once the clock has passed StartTime + Horizon.
Horizon == 15
\* Number of query() calls one caller makes.
MaxQueries == 2
\* Longest message sequence a reasoning-service response carries.
MaxMessages == 2
\* Most records of an index the retrieval tools are run against.
MaxToolDocs == 2

(***************************************************************************)
(* Program constants, src/agent/financial_agent.py:25-27.                  *)
(***************************************************************************)
MAX_RETRIES == 3
BASE_WAIT_TIME == 60
MIN_WAIT_BETWEEN_CALLS == 10

(***************************************************************************)
(* Python string operations on sequences of characters.                    *)
(***************************************************************************)
Whitespace == {" ", "\t", "\n"}

UpperCase == <<"A","B","C","D","E","F","G","H","I","J","K","L","M",
               "N","O","P","Q","R","S","T","U","V","W","X","Y","Z">>
LowerCase == <<"a","b","c","d","e","f","g","h","i","j","k","l","m",
               "n","o","p","q","r","s","t","u","v","w","x","y","z">>

\* str.lower() on one character.
LowerChar(ch) ==
    IF \E i \in 1..26 : UpperCase[i] = ch
    THEN LowerCase[CHOOSE i \in 1..26 : UpperCase[i] = ch]
    ELSE ch

\* str.lower()
Lower(s) == [i \in 1..Len(s) |-> LowerChar(s[i])]

\* s[i:i+len(p)] == p  (i is one-based here)
MatchAt(s, p, i) ==
    /\ i + Len(p) - 1 <= Len(s)
    /\ \A j \in 1..Len(p) : s[i + j - 1] = p[j]

\* `p in s`
Contains(s, p) == \E i \in 1..(Len(s) + 1) : MatchAt(s, p, i)

\* s.find(p) + 1: the first position where p occurs, 0 when it does not.
Find(s, p) ==
    IF Contains(s, p)
    THEN CHOOSE i \in 1..(Len(s) + 1) :
            /\ MatchAt(s, p, i)
            /\ \A k \in 1..(i - 1) : ~MatchAt(s, p, k)
    ELSE 0

\* s.split(sep): the pieces between the non-overlapping occurrences of sep,
\* found left to right.
RECURSIVE Split(_, _)
Split(s, sep) ==
    LET i == Find(s, sep) IN
    IF i = 0 THEN <<s>>
    ELSE <<SubSeq(s, 1, i - 1)>> \o Split(SubSeq(s, i + Len(sep), Len(s)), sep)

\* "".join(parts) with a separator
RECURSIVE Join(_, _)
Join(parts, sep) ==
    IF Len(parts) = 0 THEN <<>>
    ELSE IF Len(parts) = 1 THEN parts[1]
    ELSE parts[1] \o sep \o Join(Tail(parts), sep)

\* s.replace(old, new)
Replace(s, old, new) == Join(Split(s, old), new)

RECURSIVE LStrip(_)
LStrip(s) ==
    IF Len(s) > 0 /\ s[1] \in Whitespace THEN LStrip(Tail(s)) ELSE s

RECURSIVE RStrip(_)
RStrip(s) ==
    IF Len(s) > 0 /\ s[Len(s)] \in Whitespace
    THEN RStrip(SubSeq(s, 1, Len(s) - 1)) ELSE s

\* s.strip()
Strip(s) == RStrip(LStrip(s))

\* s.split(): the words between runs of whitespace.
RECURSIVE SplitWords(_)
SplitWords(s) ==
    LET t == LStrip(s) IN
    IF Len(t) = 0 THEN <<>>
    ELSE LET n == IF \E i \in 1..Len(t) : t[i] \in Whitespace
                  THEN (CHOOSE i \in 1..Len(t) :
                            /\ t[i] \in Whitespace
                            /\ \A k \in 1..(i - 1) : t[k] \notin Whitespace) - 1
                  ELSE Len(t)
         IN <<SubSeq(t, 1, n)>> \o SplitWords(SubSeq(t, n + 1, Len(t)))

(***************************************************************************)
(* How a Python call ends: it returns a value or raises an exception whose *)
(* str() is the value.                                                     *)
(***************************************************************************)
Return(v) == [kind |-> "return", value |-> v]
Raise(m) == [kind |-> "raise", value |-> m]
NoOutcome == [kind |-> "none", value |-> <<>>]

(***************************************************************************)
(* The fixed replies of query(), src/agent/financial_agent.py.             *)
(***************************************************************************)
MSG_INVALID_QUERY == <<"Please provide a valid query.">>
MSG_NO_DOCUMENTS ==
    <<"No documents available in the system. Please fetch and index SEC 10-K filings first before asking questions.">>
MSG_NO_AI_CONTENT ==
    <<"I processed your query but couldn't generate a response. Please try rephrasing your question. Helpful tip: Include the company name or ticker symbol (e.g., 'Apple' or 'AAPL') and specific metric (e.g., 'revenue', 'net income') in your query.">>
MSG_NO_MESSAGES ==
    <<"No response generated. Please try rephrasing your question with more specific details.">>
MSG_RATE_LIMITED ==
    <<"The Google AI API is currently rate-limited. This is common with the free tier when making multiple requests. Please wait 2-3 minutes before trying again. Consider simplifying your query to use fewer API calls.">>

\* f"Error processing query: {str(e)}. Please ensure ..."
ErrorProcessingQuery(e) ==
    <<"Error processing query: ">> \o e
        \o <<". Please ensure your question includes specific company names and financial metrics.">>

(***************************************************************************)
(* The content of a message: a plain string, or a list of fragments, each  *)
(* a dict with a text key, a plain string, or an object with a text        *)
(* attribute.                                                              *)
(***************************************************************************)
StrContent(t) == [shape |-> "str", text |-> t, parts |-> <<>>]
ListContent(ps) == [shape |-> "list", text |-> <<>>, parts |-> ps]
Fragment(k, t) == [kind |-> k, text |-> t]

\* repr() of one fragment of a list content.
PyRepr(f) ==
    CASE f.kind = "dict" -> <<"{","'text'",":"," ","'">> \o f.text \o <<"'","}">>
      [] f.kind = "str" -> <<"'">> \o f.text \o <<"'">>
      [] OTHER -> <<"<object>">>

\* str(content): a string is itself, a list is the repr of the list.
PyStr(content) ==
    IF content.shape = "str" THEN content.text
    ELSE <<"[">>
         \o Join([i \in 1..Len(content.parts) |-> PyRepr(content.parts[i])],
                 <<",", " ">>)
         \o <<"]">>

\* bool(content): the empty string and the empty list are false.
PyBool(content) ==
    IF content.shape = "str" THEN Len(content.text) > 0
    ELSE Len(content.parts) > 0

\* A message of the response: its type attribute ("none": it has none) and its
\* content attribute (hasContent FALSE: the attribute is missing).
Message(t, c) == [type |-> t, hasContent |-> TRUE, content |-> c]
MessageNoContent(t) == [type |-> t, hasContent |-> FALSE, content |-> StrContent(<<>>)]

ATTRIBUTE_ERROR_CONTENT == <<"object has no attribute 'content'">>
ATTRIBUTE_ERROR_GET == <<"'NoneType' object has no attribute 'get'">>

\* The messages the model's responses are built from.
MessagePool ==
    { Message("ai", StrContent(<<"R","e","v">>)),
      Message("ai", StrContent(<<" ","o","k"," ">>)),
      Message("ai", StrContent(<<>>)),
      Message("ai", StrContent(<<" ", " ">>)),
      Message("human", StrContent(<<"Q","?">>)),
      Message("ai", ListContent(<<Fragment("dict", <<"A", " ">>),
                                  Fragment("str", <<"B">>),
                                  Fragment("obj", <<"C">>)>>)),
      Message("ai", ListContent(<<>>)),
      Message("ai", ListContent(<<Fragment("dict", <<" ">>)>>)),
      MessageNoContent("ai") }

MessageSeqs == UNION { [1..n -> MessagePool] : n \in 0..MaxMessages }

\* What agent_executor.invoke returns: a dict with a "messages" key, a dict
\* without it, or something that is no dict at all.
DictResponse(ms) == [shape |-> "dict", hasMessages |-> TRUE, messages |-> ms]
DictNoMessages == [shape |-> "dict", hasMessages |-> FALSE, messages |-> <<>>]
NoneResponse == [shape |-> "none", hasMessages |-> FALSE, messages |-> <<>>]

Responses == { DictResponse(ms) : ms \in MessageSeqs } \cup {DictNoMessages, NoneResponse}

(***************************************************************************)
(* Response extraction, src/agent/financial_agent.py:231-257.              *)
(***************************************************************************)
\* `for msg in reversed(messages)` from position i downward.
RECURSIVE ScanReversed(_, _)
ScanReversed(messages, i) ==
    IF i = 0 THEN Return(MSG_NO_AI_CONTENT)
    ELSE LET msg == messages[i] IN
         IF msg.type = "ai"
         THEN IF ~msg.hasContent THEN Raise(ATTRIBUTE_ERROR_CONTENT)
              ELSE IF PyBool(msg.content) /\ Strip(PyStr(msg.content)) # <<>>
                   THEN Return(PyStr(msg.content))
                   ELSE ScanReversed(messages, i - 1)
         ELSE ScanReversed(messages, i - 1)

\* The same loop without reversed(): the first qualifying message wins.
RECURSIVE ScanForward(_, _)
ScanForward(messages, i) ==
    IF i > Len(messages) THEN Return(MSG_NO_AI_CONTENT)
    ELSE LET msg == messages[i] IN
         IF msg.type = "ai"
         THEN IF ~msg.hasContent THEN Raise(ATTRIBUTE_ERROR_CONTENT)
              ELSE IF PyBool(msg.content) /\ Strip(PyStr(msg.content)) # <<>>
                   THEN Return(PyStr(msg.content))
                   ELSE ScanForward(messages, i + 1)
         ELSE ScanForward(messages, i + 1)

ExtractFromMessagesForward(messages) == ScanForward(messages, 1)

\* Lines 235-254: the scan of a non-empty message list.
ExtractFromMessages(messages) == ScanReversed(messages, Len(messages))

\* Lines 231-257 with the reply of line 254 for an empty message list too.
ExtractResponseOneFallback(response) ==
    IF response.shape # "dict" THEN Raise(ATTRIBUTE_ERROR_GET)
    ELSE LET messages == IF response.hasMessages THEN response.messages ELSE <<>> IN
         ExtractFromMessages(messages)

\* Lines 231-257: what the try body does with the service's response.
ExtractResponse(response) ==
    IF response.shape # "dict" THEN Raise(ATTRIBUTE_ERROR_GET)
    ELSE LET messages == IF response.hasMessages THEN response.messages ELSE <<>> IN
         IF Len(messages) > 0 THEN ExtractFromMessages(messages)
         ELSE Return(MSG_NO_MESSAGES)

(***************************************************************************)
(* Error classification, src/agent/financial_agent.py:212-213, 260-262.    *)
(***************************************************************************)
rate_limit_errors ==
    { <<"4","2","9">>, <<"r","e","s","o","u","r","c","e","_","e","x","h","a","u","s","t","e","d">>,
      <<"q","u","o","t","a">>, <<"r","a","t","e"," ","l","i","m","i","t">> }

\* Line 262 without the lower() of line 260.
IsRateLimitErrorCaseSensitive(e) == \E pattern \in rate_limit_errors : Contains(e, pattern)

\* any(pattern in str(e).lower() for pattern in rate_limit_errors)
IsRateLimitError(e) == \E pattern \in rate_limit_errors : Contains(Lower(e), pattern)

\* str(e) of the exceptions the model's reasoning service raises.
ErrorMessages ==
    { <<"H","T","T","P"," ","4","2","9">>, <<"R","E","S","O","U","R","C","E","_","E","X","H","A","U","S","T","E","D">>,
      <<"Q","u","o","t","a"," ","h","i","t">>, <<"R","a","t","e"," ","L","i","m","i","t">>,
      <<"r","a","t","e","-","l","i","m","i","t">>, <<"t","i","m","e","o","u","t"," ","4","2">>,
      <<>> }

(***************************************************************************)
(* The retrieval facade, src/rag_engine/vector_store.py.  The index is the *)
(* sequence of the records it holds.                                       *)
(***************************************************************************)
TOP_K_RESULTS == 2

Record(t, d, c) == [ticker |-> t, filing_date |-> d, content |-> c]

\* The records the model's indexes are built from.
RecordPool ==
    { Record(<<"A">>, <<"2022-10-28">>, <<"a","p","p","l","e">>),
      Record(<<"M">>, <<"2022-07-30">>, <<"m","s","f","t">>) }

\* Most records the index holds when the agent is constructed.
MaxDocs == 1

\* The index states query() is run against: query() reads only the count.
IndexStates ==
    UNION { [1..n -> {Record(<<"A">>, <<"2022-10-28">>, <<"a","p","p","l","e">>)}] :
              n \in 0..MaxDocs }

\* get_document_count with the try/except of lines 188-195 left out.
get_document_count_no_except(col, countFails) ==
    IF countFails THEN Raise(<<"Database error">>) ELSE Return(Len(col))

\* Lines 182-195: collection.count(), and 0 when it raises.
get_document_count(col, countFails) ==
    IF countFails THEN Return(0) ELSE Return(Len(col))

\* Lines 197-199 with >= for >.
has_documents_not_negative(col, countFails) ==
    LET n == get_document_count(col, countFails) IN
    IF n.kind = "raise" THEN n ELSE Return(n.value >= 0)

\* Lines 197-199.
has_documents(col, countFails) ==
    LET n == get_document_count(col, countFails) IN
    IF n.kind = "raise" THEN n ELSE Return(n.value > 0)

(***************************************************************************)
(* Search, src/rag_engine/vector_store.py:125-180.  The similarity search  *)
(* of the vector database is outside the program: env.rank is the order of *)
(* relevance it gives the records for this query, env.storeFails whether   *)
(* it raises, env.countFails whether collection.count() raises.            *)
(***************************************************************************)
NoFilter == [on |-> FALSE, ticker |-> <<>>]
TickerFilter(t) == [on |-> TRUE, ticker |-> t]

\* The first n entries of a sequence.
Take(seq, n) == SubSeq(seq, 1, IF n < Len(seq) THEN n ELSE Len(seq))

\* vector_store.similarity_search_with_score(query, k, filter), as the
\* formatted results of lines 142-151.
SimilaritySearch(col, k, filter, rank) ==
    LET hits == SelectSeq(rank, LAMBDA i :
                    i \in 1..Len(col) /\ (filter.on => col[i].ticker = filter.ticker))
        top == Take(hits, k)
    IN [j \in 1..Len(top) |->
           [content |-> col[top[j]].content,
            metadata |-> [ticker |-> col[top[j]].ticker,
                          filing_date |-> col[top[j]].filing_date]]]

\* What a search gave and the similarity queries it issued to the index.
Searched(out, issued) == [out |-> out, issued |-> issued]
SimilarityQuery(k, filter) == [k |-> k, filter |-> filter]

\* Lines 125-155 without the guard of lines 130-132.
search_run_unguarded(col, query, k, filter, env) ==
    LET kk == IF k = 0 THEN TOP_K_RESULTS ELSE k IN
    IF env.storeFails THEN Searched(Return(<<>>), <<SimilarityQuery(kk, filter)>>)
    ELSE Searched(Return(SimilaritySearch(col, kk, filter, env.rank)),
                  <<SimilarityQuery(kk, filter)>>)

\* Lines 125-155.  k = 0 stands for k = None.
search_run(col, query, k, filter, env) ==
    LET kk == IF k = 0 THEN TOP_K_RESULTS ELSE k
        docs == has_documents(col, env.countFails)
    IN IF docs.kind = "raise" THEN Searched(docs, <<>>)
       ELSE IF ~docs.value THEN Searched(Return(<<>>), <<>>)
       ELSE IF env.storeFails
       THEN Searched(Return(<<>>), <<SimilarityQuery(kk, filter)>>)
       ELSE Searched(Return(SimilaritySearch(col, kk, filter, env.rank)),
                     <<SimilarityQuery(kk, filter)>>)

\* The value search() returns.
search(col, query, k, filter, env) == search_run(col, query, k, filter, env).out

\* Lines 157-159.
search_by_ticker(col, query, ticker, k, env) ==
    search(col, query, k, TickerFilter(ticker), env)

CTX_NO_DOCUMENTS ==
    <<"No documents available. Please fetch and index SEC 10-K filings first.">>
CTX_NO_RELEVANT ==
    <<"No relevant context found for this query. Try rephrasing or ensure the relevant companies' filings are indexed.">>

Digits == <<"1", "2", "3", "4", "5", "6", "7", "8", "9">>

\* f"[Source {i} - {ticker} - {filing_date}]\n{content}\n"
ContextPart(i, r) ==
    <<"[Source ", Digits[i], " - ">> \o r.metadata.ticker \o <<" - ">>
        \o r.metadata.filing_date \o <<"]", "\n">> \o r.content \o <<"\n">>

\* Lines 161-180 with the blocks in the reverse of the order of search.
get_context_for_query_least_relevant_first(col, query, k, env) ==
    LET docs == has_documents(col, env.countFails) IN
    IF docs.kind = "raise" THEN docs
    ELSE IF ~docs.value THEN Return(CTX_NO_DOCUMENTS)
    ELSE LET results == search(col, query, k, NoFilter, env) IN
         IF results.kind = "raise" THEN results
         ELSE IF Len(results.value) = 0 THEN Return(CTX_NO_RELEVANT)
         ELSE LET n == Len(results.value) IN
              Return(Join([i \in 1..n |-> ContextPart(i, results.value[n + 1 - i])],
                          <<"\n">>))

\* Lines 161-180.
get_context_for_query(col, query, k, env) ==
    LET docs == has_documents(col, env.countFails) IN
    IF docs.kind = "raise" THEN docs
    ELSE IF ~docs.value THEN Return(CTX_NO_DOCUMENTS)
    ELSE LET results == search(col, query, k, NoFilter, env) IN
         IF results.kind = "raise" THEN results
         ELSE IF Len(results.value) = 0 THEN Return(CTX_NO_RELEVANT)
         ELSE Return(Join([i \in 1..Len(results.value) |->
                              ContextPart(i, results.value[i])], <<"\n">>))

(***************************************************************************)
(* Validation, src/agent/financial_agent.py:197-205.  NoOutcome: the       *)
(* question passed and the retry loop starts.                              *)
(***************************************************************************)
\* Lines 197-205 with the documents check before the question check.
ValidateDocumentsFirst(q, col, countFails) ==
    LET docs == has_documents(col, countFails) IN
    IF docs.kind = "raise" THEN docs
    ELSE IF ~docs.value THEN Return(MSG_NO_DOCUMENTS)
    ELSE IF Len(q) = 0 \/ Len(Strip(q)) = 0 THEN Return(MSG_INVALID_QUERY)
    ELSE NoOutcome

Validate(q, col, countFails) ==
    IF Len(q) = 0 \/ Len(Strip(q)) = 0 THEN Return(MSG_INVALID_QUERY)
    ELSE LET docs == has_documents(col, countFails) IN
         IF docs.kind = "raise" THEN docs
         ELSE IF ~docs.value THEN Return(MSG_NO_DOCUMENTS)
         ELSE NoOutcome

(***************************************************************************)
(* Pacing and backoff, src/agent/financial_agent.py:217-227, 264.          *)
(***************************************************************************)
\* Lines 219-224 sleeping the whole minimum whenever the last call is recent.
PacingWaitWholeMinimum(current_time, last_call) ==
    IF current_time - last_call < MIN_WAIT_BETWEEN_CALLS
    THEN MIN_WAIT_BETWEEN_CALLS ELSE 0

\* Lines 218-224 without the sleep of lines 221-224.
PacingWaitNever(current_time, last_call) == 0

\* Lines 218-224: the seconds slept before an attempt (0: no sleep).
PacingWait(current_time, last_call) ==
    LET time_since_last_call == current_time - last_call IN
    IF time_since_last_call < MIN_WAIT_BETWEEN_CALLS
    THEN MIN_WAIT_BETWEEN_CALLS - time_since_last_call
    ELSE 0

\* Line 264 with a linear schedule.
BackoffWaitLinear(attempt_index) == BASE_WAIT_TIME * (attempt_index + 1)

\* Line 264: BASE_WAIT_TIME * (2 ** attempt)
BackoffWait(attempt_index) == BASE_WAIT_TIME * (2 ^ attempt_index)

\* Line 215 with one attempt too many.
AttemptsLeftOffByOne(attempt_index) == attempt_index + 1 <= MAX_RETRIES

\* Line 215: whether range(MAX_RETRIES) has an attempt after attempt_index.
AttemptsLeft(attempt_index) == attempt_index + 1 < MAX_RETRIES

\* The questions the model's callers ask.
Questions == { <<>>, <<" ", " ">>, <<"r","e","v","?">>, <<" ","r","e","v","?","\n">> }

\* A pacing sleep may last longer than asked, by one of these.  (A backoff
\* sleep is taken as exact: it ends a minute or more after the last call, so
\* a longer one changes nothing the program reads.)
Oversleeps == {0, TickStep}

ServiceOutcomes == { Return(r) : r \in Responses } \cup { Raise(e) : e \in ErrorMessages }

(***************************************************************************)
(* State.  One agent and one index; the per-call values of query() are     *)
(* kept per caller.                                                        *)
(***************************************************************************)
Callers == {1, 2}
\* The callers of the sequential specification.
SeqCallers == {1}

VARIABLES
    now,                 \* time.time()
    collection,          \* the records of the index
    last_api_call_time,  \* self.last_api_call_time
    pc,                  \* pc[c]: where caller c's query() is
    question,            \* question[c]: the stripped question
    attempt,             \* attempt[c]: the loop variable of line 215
    result,              \* result[c]: how the last query() of c ended
    queries,             \* queries[c]: query() calls c has made
    invocations,         \* invocations[c]: agent_executor.invoke calls of this query()
    sleeps,              \* sleeps[c]: the time.sleep calls of this query()
    paced,               \* paced[c]: the clock and last call seen by the last pacing
    served,              \* served[c]: how each attempt of this query() ended
    lastSvc,             \* lastSvc[c]: what the last agent_executor.invoke did
    indexSeen,           \* indexSeen[c]: the index and its count() as query() began
    lastCallAt,          \* when the last agent_executor.invoke began (-1: never)
    toolLog,             \* the last tool call: tool, input, environment, output
    facadeLog,           \* the last call of the facade that has ended
    add,                 \* the add_documents call: its position and what it has done
    lastWriter,          \* the caller whose query() assigned last_api_call_time (0: none)
    unitLog              \* the last call of the chunker's constructor, the embedder
                         \* or _enhance_query

vars == << now, collection, last_api_call_time, pc, question, attempt, result,
           queries, invocations, sleeps, paced, served, lastSvc, indexSeen, lastCallAt, toolLog,
           facadeLog, add, lastWriter, unitLog >>

ragVars == << facadeLog, add, unitLog >>

orchVars == << now, last_api_call_time, pc, question, attempt, result,
               queries, invocations, sleeps, paced, served, lastSvc, indexSeen, lastCallAt,
               lastWriter >>

NotSeen == [size |-> -1, countFails |-> FALSE]
NoPacing == [current_time |-> -1, last_call |-> -1, wait |-> 0, attempt |-> -1,
             writer |-> 0]
NoEnv == [countFails |-> FALSE, storeFails |-> FALSE, fault |-> FALSE, rank |-> <<>>]
NoTool == [tool |-> "none", input |-> <<>>, env |-> NoEnv, searches |-> <<>>,
           out |-> NoOutcome]
NoFacade == [op |-> "none"]
NoUnit == [op |-> "none"]
NoAdd == [pc |-> "idle", documents |-> <<>>, chunks |-> <<>>, i |-> 0,
          upserts |-> <<>>, sleeps |-> <<>>, before |-> <<>>, result |-> NoOutcome]

Init ==
    /\ now = StartTime
    /\ collection \in IndexStates
    /\ last_api_call_time = 0
    /\ pc = [c \in Callers |-> "idle"]
    /\ question = [c \in Callers |-> <<>>]
    /\ attempt = [c \in Callers |-> 0]
    /\ result = [c \in Callers |-> NoOutcome]
    /\ queries = [c \in Callers |-> 0]
    /\ invocations = [c \in Callers |-> 0]
    /\ sleeps = [c \in Callers |-> <<>>]
    /\ paced = [c \in Callers |-> NoPacing]
    /\ served = [c \in Callers |-> <<>>]
    /\ lastSvc = [c \in Callers |-> NoOutcome]
    /\ indexSeen = [c \in Callers |-> NotSeen]
    /\ lastCallAt = -1
    /\ toolLog = NoTool
    /\ facadeLog = NoFacade
    /\ add = NoAdd
    /\ lastWriter = 0
    /\ unitLog = NoUnit

\* The clock advances while no one sleeps.
Tick ==
    /\ now + TickStep <= StartTime + Horizon
    /\ now' = now + TickStep
    /\ UNCHANGED << collection, last_api_call_time, pc, question, attempt, result,
                    queries, invocations, sleeps, paced, served, lastSvc, indexSeen, lastCallAt, toolLog >>
    /\ UNCHANGED << ragVars, lastWriter >>

\* query(q), lines 195-215: validation, up to the start of the retry loop.
QueryBegin(c, q, countFails) ==
    /\ pc[c] \in {"idle", "done"}
    /\ queries[c] < MaxQueries
    /\ now <= StartTime + Horizon
    /\ LET v == Validate(q, collection, countFails) IN
       /\ pc' = [pc EXCEPT ![c] = IF v = NoOutcome THEN "attempt" ELSE "done"]
       /\ result' = [result EXCEPT ![c] = v]
       /\ question' = [question EXCEPT ![c] = IF v = NoOutcome THEN Strip(q) ELSE q]
    /\ queries' = [queries EXCEPT ![c] = @ + 1]
    /\ attempt' = [attempt EXCEPT ![c] = 0]
    /\ invocations' = [invocations EXCEPT ![c] = 0]
    /\ sleeps' = [sleeps EXCEPT ![c] = <<>>]
    /\ paced' = [paced EXCEPT ![c] = NoPacing]
    /\ served' = [served EXCEPT ![c] = <<>>]
    /\ lastSvc' = [lastSvc EXCEPT ![c] = NoOutcome]
    /\ indexSeen' = [indexSeen EXCEPT ![c] =
           [size |-> Len(collection), countFails |-> countFails]]
    /\ UNCHANGED << now, collection, last_api_call_time, lastCallAt, toolLog >>
    /\ UNCHANGED << ragVars, lastWriter >>

\* Lines 217-229: the pacing sleep, then the call to the reasoning service
\* begins.
Pace(c, over) ==
    /\ pc[c] = "attempt"
    /\ LET wait == PacingWait(now, last_api_call_time)
           after == IF wait > 0 THEN now + wait + over ELSE now
       IN /\ over > 0 => wait > 0
          /\ paced' = [paced EXCEPT ![c] =
                 [current_time |-> now, last_call |-> lastCallAt, wait |-> wait,
                  attempt |-> attempt[c], writer |-> lastWriter]]
          /\ sleeps' = [sleeps EXCEPT ![c] =
                 IF wait > 0
                 THEN Append(@, [kind |-> "pacing", seconds |-> wait, attempt |-> attempt[c]])
                 ELSE @]
          /\ now' = after
          /\ last_api_call_time' = after
          /\ lastCallAt' = after
    /\ invocations' = [invocations EXCEPT ![c] = @ + 1]
    /\ pc' = [pc EXCEPT ![c] = "invoke"]
    /\ lastSvc' = [lastSvc EXCEPT ![c] = NoOutcome]
    /\ lastWriter' = c
    /\ UNCHANGED << collection, question, attempt, result, queries, served,
                    indexSeen, toolLog >>
    /\ UNCHANGED ragVars

\* Lines 229-274: the attempt ends.  svc is what agent_executor.invoke did;
\* the try body returns or raises, and the handler of lines 259-271 decides.
AttemptEnds(c, svc) ==
    LET body == IF svc.kind = "raise" THEN svc ELSE ExtractResponse(svc.value)
        quota == body.kind = "raise" /\ IsRateLimitError(body.value)
        wait == BackoffWait(attempt[c])
    IN /\ pc[c] = "invoke"
       /\ lastSvc' = [lastSvc EXCEPT ![c] = svc]
       /\ served' = [served EXCEPT ![c] =
              Append(@, IF body.kind = "return" THEN "ok"
                        ELSE IF quota THEN "quota" ELSE "fatal")]
       /\ IF body.kind = "return"
          THEN /\ result' = [result EXCEPT ![c] = body]
               /\ pc' = [pc EXCEPT ![c] = "done"]
               /\ UNCHANGED << now, sleeps, attempt >>
          ELSE IF quota
          THEN /\ sleeps' = [sleeps EXCEPT ![c] =
                      Append(@, [kind |-> "backoff", seconds |-> wait,
                                 attempt |-> attempt[c]])]
               /\ now' = now + wait
               /\ IF AttemptsLeft(attempt[c])
                  THEN /\ attempt' = [attempt EXCEPT ![c] = @ + 1]
                       /\ pc' = [pc EXCEPT ![c] = "attempt"]
                       /\ UNCHANGED result
                  ELSE /\ result' = [result EXCEPT ![c] = Return(MSG_RATE_LIMITED)]
                       /\ pc' = [pc EXCEPT ![c] = "done"]
                       /\ UNCHANGED attempt
          ELSE /\ result' = [result EXCEPT ![c] =
                      Return(ErrorProcessingQuery(body.value))]
               /\ pc' = [pc EXCEPT ![c] = "done"]
               /\ UNCHANGED << now, sleeps, attempt >>
       /\ UNCHANGED << collection, last_api_call_time, question, queries,
                       invocations, paced, indexSeen, lastCallAt, toolLog >>
       /\ UNCHANGED << ragVars, lastWriter >>

\* agent_executor.invoke returns a response.
InvokeReturns(c, r) == AttemptEnds(c, Return(r))

\* agent_executor.invoke raises an exception whose str() is e.
InvokeRaises(c, e) == AttemptEnds(c, Raise(e))

Next ==
    \/ Tick
    \/ \E c \in SeqCallers, q \in Questions, countFails \in BOOLEAN :
          QueryBegin(c, q, countFails)
    \/ \E c \in SeqCallers, over \in Oversleeps : Pace(c, over)
    \/ \E c \in SeqCallers, r \in Responses : InvokeReturns(c, r)
    \/ \E c \in SeqCallers, e \in ErrorMessages : InvokeRaises(c, e)

Spec == Init /\ [][Next]_vars

(***************************************************************************)
(* Two callers in query() on the same agent at once.  The agent has one    *)
(* self.last_api_call_time (line 46), which every query() reads at line    *)
(* 219 and assigns at line 227; attempt is a local of each call.  A step   *)
(* of one caller is taken while the other is anywhere in its own call; a   *)
(* caller asleep holds the step, which is one of the schedules threads     *)
(* allow.                                                                  *)
(***************************************************************************)
\* What the concurrent callers ask and what the reasoning service does.
ConcurrentQuestions == { <<"r","e","v","?">> }
ConcurrentResponses == { DictNoMessages }
ConcurrentErrors == { <<"H","T","T","P"," ","4","2","9">>, <<>> }

\* Caller d is inside the retry loop of a query() that has already assigned
\* last_api_call_time (line 227).
InFlight(d) == pc[d] \in {"attempt", "invoke"} /\ invocations[d] > 0

NextConcurrent ==
    \/ Tick
    \/ \E c \in Callers, q \in ConcurrentQuestions : QueryBegin(c, q, FALSE)
    \/ \E c \in Callers : Pace(c, 0)
    \/ \E c \in Callers, r \in ConcurrentResponses : InvokeReturns(c, r)
    \/ \E c \in Callers, e \in ConcurrentErrors : InvokeRaises(c, e)

SpecConcurrent == Init /\ [][NextConcurrent]_vars

(***************************************************************************)
(* The retrieval tools, src/agent/financial_agent.py:89-161.  A tool call  *)
(* yields its output and the searches it asked of the facade.  The facade  *)
(* is the object handed to the agent at construction: env.fault is a call  *)
(* of it raising.                                                          *)
(***************************************************************************)
TOOL_NO_DOCUMENTS ==
    <<"No documents available. Please fetch and index SEC 10-K filings first before querying.">>
TOOL_NO_DOCUMENTS_COMPARE ==
    <<"No documents available. Please fetch and index SEC 10-K filings first before comparing companies.">>
TOOL_INVALID_TICKER_FORMAT ==
    <<"Invalid format. Use 'ticker:AAPL query:your question'">>
TOOL_INVALID_COMPARE_FORMAT ==
    <<"Invalid format. Expected 'ticker1:AAPL ticker2:MSFT query:revenue comparison'">>
TOOL_NEED_TWO_TICKERS ==
    <<"Need at least two tickers to compare. Format: 'ticker1:AAPL ticker2:MSFT query:your question'">>
FACADE_ERROR == <<"facade failure">>

QUERY_MARKER == <<"q","u","e","r","y",":">>
TICKER_PREFIX == <<"t","i","c","k","e","r",":">>
TICKER_WORD == <<"t","i","c","k","e","r">>

Done(out, searches) == [out |-> out, searches |-> searches]
SearchCall(query, ticker, k) == [query |-> query, ticker |-> ticker, k |-> k]

\* A call of the facade from a tool: it raises, or gives what the facade gives.
FacadeCall(out, env) == IF env.fault THEN Raise(FACADE_ERROR) ELSE out

\* "\n".join / "\n\n".join of the contents of the results.
Contents(results, sep) == Join([i \in 1..Len(results) |-> results[i].content], sep)

\* except Exception as e: return f"<prefix>{str(e)}"
Caught(done, prefix) ==
    IF done.out.kind = "raise"
    THEN Done(Return(prefix \o done.out.value), done.searches)
    ELSE done

\* Lines 92-98: the try body of _search_filings.
search_filings_body(col, query, env) ==
    LET docs == has_documents(col, env.countFails) IN
    IF docs.kind = "raise" THEN Done(docs, <<>>)
    ELSE IF ~docs.value THEN Done(Return(TOOL_NO_DOCUMENTS), <<>>)
    ELSE Done(FacadeCall(get_context_for_query(col, query, 2, env), env),
              <<SearchCall(query, <<>>, 2)>>)

\* Lines 89-101.
search_filings(col, query, env) ==
    Caught(search_filings_body(col, query, env), <<"Error searching filings: ">>)

\* Lines 106-121 without the marker check of lines 110-111: parts[1] of a
\* one-element list raises IndexError.
search_by_ticker_body_no_marker_check(col, input_str, env) ==
    LET docs == has_documents(col, env.countFails) IN
    IF docs.kind = "raise" THEN Done(docs, <<>>)
    ELSE IF ~docs.value THEN Done(Return(TOOL_NO_DOCUMENTS), <<>>)
    ELSE LET parts == Split(input_str, QUERY_MARKER) IN
         IF Len(parts) < 2 THEN Done(Raise(<<"list index out of range">>), <<>>)
         ELSE LET ticker == Strip(Replace(parts[1], TICKER_PREFIX, <<>>))
                  query == Strip(parts[2])
                  results == FacadeCall(search_by_ticker(col, query, ticker, 2, env), env)
                  asked == <<SearchCall(query, ticker, 2)>>
              IN IF results.kind = "raise" THEN Done(results, asked)
                 ELSE IF Len(results.value) = 0
                 THEN Done(Return(<<"No information found for ">> \o ticker
                              \o <<". Ensure this company's filings are indexed.">>), asked)
                 ELSE Done(Return(Contents(results.value, <<"\n", "\n">>)), asked)

\* Lines 106-121 with the marker check of lines 110-111 ahead of the
\* documents check of lines 107-108.
search_by_ticker_body_parse_first(col, input_str, env) ==
    IF ~Contains(input_str, QUERY_MARKER)
    THEN Done(Return(TOOL_INVALID_TICKER_FORMAT), <<>>)
    ELSE LET docs == has_documents(col, env.countFails) IN
         IF docs.kind = "raise" THEN Done(docs, <<>>)
         ELSE IF ~docs.value THEN Done(Return(TOOL_NO_DOCUMENTS), <<>>)
         ELSE search_by_ticker_body_no_marker_check(col, input_str, env)

\* Lines 106-121: the try body of _search_by_ticker.
search_by_ticker_body(col, input_str, env) ==
    LET docs == has_documents(col, env.countFails) IN
    IF docs.kind = "raise" THEN Done(docs, <<>>)
    ELSE IF ~docs.value THEN Done(Return(TOOL_NO_DOCUMENTS), <<>>)
    ELSE IF ~Contains(input_str, QUERY_MARKER)
    THEN Done(Return(TOOL_INVALID_TICKER_FORMAT), <<>>)
    ELSE LET parts == Split(input_str, QUERY_MARKER)
             ticker == Strip(Replace(parts[1], TICKER_PREFIX, <<>>))
             query == Strip(parts[2])
             results == FacadeCall(search_by_ticker(col, query, ticker, 2, env), env)
             asked == <<SearchCall(query, ticker, 2)>>
         IN IF results.kind = "raise" THEN Done(results, asked)
            ELSE IF Len(results.value) = 0
            THEN Done(Return(<<"No information found for ">> \o ticker
                         \o <<". Ensure this company's filings are indexed.">>), asked)
            ELSE Done(Return(Contents(results.value, <<"\n", "\n">>)), asked)

\* Lines 103-124.
search_by_ticker_tool(col, input_str, env) ==
    Caught(search_by_ticker_body(col, input_str, env), <<"Error searching for ticker: ">>)

\* Line 138: [w.split(':')[1] for w in words if ':' in w and 'ticker' in w]
RECURSIVE TickersOf(_)
TickersOf(words) ==
    IF Len(words) = 0 THEN <<>>
    ELSE LET w == Head(words) IN
         (IF Contains(w, <<":">>) /\ Contains(w, TICKER_WORD)
          THEN <<Split(w, <<":">>)[2]>> ELSE <<>>) \o TickersOf(Tail(words))

\* Lines 129-158: the try body of _compare_companies.
compare_companies_body(col, input_str, env) ==
    LET docs == has_documents(col, env.countFails) IN
    IF docs.kind = "raise" THEN Done(docs, <<>>)
    ELSE IF ~docs.value THEN Done(Return(TOOL_NO_DOCUMENTS_COMPARE), <<>>)
    ELSE IF ~Contains(input_str, QUERY_MARKER)
    THEN Done(Return(TOOL_INVALID_COMPARE_FORMAT), <<>>)
    ELSE LET query == Strip(Split(input_str, QUERY_MARKER)[2])
             tickers == TickersOf(SplitWords(input_str))
         IN IF Len(tickers) < 2 THEN Done(Return(TOOL_NEED_TWO_TICKERS), <<>>)
            ELSE LET results1 == FacadeCall(
                         search_by_ticker(col, query, tickers[1], 1, env), env)
                     results2 == FacadeCall(
                         search_by_ticker(col, query, tickers[2], 1, env), env)
                     asked1 == <<SearchCall(query, tickers[1], 1)>>
                     asked2 == asked1 \o <<SearchCall(query, tickers[2], 1)>>
                 IN IF results1.kind = "raise" THEN Done(results1, asked1)
                    ELSE IF results2.kind = "raise" THEN Done(results2, asked2)
                    ELSE IF Len(results1.value) = 0 /\ Len(results2.value) = 0
                    THEN Done(Return(<<"No information found for ">> \o tickers[1]
                                 \o <<" or ">> \o tickers[2]
                                 \o <<". Ensure these companies' filings are indexed.">>),
                              asked2)
                    ELSE IF Len(results1.value) = 0
                    THEN Done(Return(<<"No information found for ">> \o tickers[1]
                                 \o <<". Only ">> \o tickers[2]
                                 \o <<" data is available.">>), asked2)
                    ELSE IF Len(results2.value) = 0
                    THEN Done(Return(<<"No information found for ">> \o tickers[2]
                                 \o <<". Only ">> \o tickers[1]
                                 \o <<" data is available.">>), asked2)
                    ELSE Done(Return(<<"Data for ">> \o tickers[1] \o <<":", "\n">>
                                 \o Contents(results1.value, <<"\n">>)
                                 \o <<"\n", "\n", "Data for ">> \o tickers[2]
                                 \o <<":", "\n">>
                                 \o Contents(results2.value, <<"\n">>)), asked2)

\* _compare_companies without its try/except: an exception leaves the tool.
compare_companies_no_except(col, input_str, env) ==
    compare_companies_body(col, input_str, env)

\* Lines 126-161.
compare_companies(col, input_str, env) ==
    Caught(compare_companies_body(col, input_str, env), <<"Error comparing companies: ">>)

\* The indexes the tools are run against.
ToolCollections == UNION { [1..n -> RecordPool] : n \in 0..MaxToolDocs }

\* The orders of relevance of n records.
Rankings(n) == { r \in [1..n -> 1..n] : \A i, j \in 1..n : r[i] = r[j] => i = j }

ToolEnvs(col) ==
    [countFails : BOOLEAN, storeFails : BOOLEAN, fault : BOOLEAN,
     rank : Rankings(Len(col))]

\* The inputs the reasoning loop gives the tools.
ToolInputs ==
    { <<>>,
      <<"r","e","v">>,
      <<"t","i","c","k","e","r",":","A"," ","q","u","e","r","y",":","r","e","v">>,
      <<"t","i","c","k","e","r",":","A"," ","r","e","v">>,
      <<"t","i","c","k","e","r","1",":","A"," ","t","i","c","k","e","r","2",":","M"," ","q","u","e","r","y",":","r","e","v">>,
      <<"t","i","c","k","e","r","1",":","A"," ","q","u","e","r","y",":","r","e","v">>,
      <<"q","u","e","r","y",":">>,
      <<"t","i","c","k","e","r","1",":","A"," ","q","u","e","r","y",":","t","i","c","k","e","r">>,
      <<"t","i","c","k","e","r",":","M"," ","q","u","e","r","y",":"," ","a"," ","q","u","e","r","y",":","b"," ">> }

InitTools ==
    /\ now = StartTime
    /\ collection \in ToolCollections
    /\ last_api_call_time = 0
    /\ pc = [c \in Callers |-> "idle"]
    /\ question = [c \in Callers |-> <<>>]
    /\ attempt = [c \in Callers |-> 0]
    /\ result = [c \in Callers |-> NoOutcome]
    /\ queries = [c \in Callers |-> 0]
    /\ invocations = [c \in Callers |-> 0]
    /\ sleeps = [c \in Callers |-> <<>>]
    /\ paced = [c \in Callers |-> NoPacing]
    /\ served = [c \in Callers |-> <<>>]
    /\ lastSvc = [c \in Callers |-> NoOutcome]
    /\ indexSeen = [c \in Callers |-> NotSeen]
    /\ lastCallAt = -1
    /\ toolLog = NoTool
    /\ facadeLog = NoFacade
    /\ add = NoAdd
    /\ lastWriter = 0
    /\ unitLog = NoUnit

\* The reasoning loop calls a tool: what the tool gave is logged.  One call
\* is followed per behaviour: a tool changes no state.
Logged(tool, input, env, done) ==
    /\ toolLog = NoTool
    /\ toolLog' = [tool |-> tool, input |-> input, env |-> env,
                   searches |-> done.searches, out |-> done.out]
    /\ UNCHANGED << collection, orchVars, ragVars >>

SearchFilingsCall(input, env) ==
    Logged("search_financial_filings", input, env, search_filings(collection, input, env))

SearchByTickerCall(input, env) ==
    Logged("search_ticker_specific", input, env,
           search_by_ticker_tool(collection, input, env))

CompareCompaniesCall(input, env) ==
    Logged("compare_companies", input, env, compare_companies(collection, input, env))

NextTools ==
    \/ \E input \in ToolInputs, env \in ToolEnvs(collection) : SearchFilingsCall(input, env)
    \/ \E input \in ToolInputs, env \in ToolEnvs(collection) : SearchByTickerCall(input, env)
    \/ \E input \in ToolInputs, env \in ToolEnvs(collection) : CompareCompaniesCall(input, env)

SpecTools == InitTools /\ [][NextTools]_vars

(***************************************************************************)
(* The chunker, src/rag_engine/text_splitter.py.  The splitter of the      *)
(* library is taken at its last separator, "": windows of chunk_size       *)
(* characters that overlap by chunk_overlap, each stripped of whitespace,  *)
(* the empty ones dropped.                                                 *)
(***************************************************************************)
\* The chunk size and overlap the model's chunker is built with.
ModelChunkSize == 2
ModelChunkOverlap == 1

RECURSIVE Windows(_, _, _)
Windows(text, size, overlap) ==
    IF Len(text) <= size THEN <<text>>
    ELSE <<SubSeq(text, 1, size)>>
             \o Windows(SubSeq(text, size - overlap + 1, Len(text)), size, overlap)

\* self.text_splitter.split_text(text)
TextSplitter(text, size, overlap) ==
    LET windows == Windows(text, size, overlap)
        stripped == [i \in 1..Len(windows) |-> Strip(windows[i])]
    IN SelectSeq(stripped, LAMBDA w : Len(w) > 0)

\* Lines 37-54.
split_text(text, size, overlap) ==
    IF Len(text) = 0 THEN <<>> ELSE TextSplitter(text, size, overlap)

\* doc.get(key, default): a document is a record with some of the fields
\* content, ticker, filing_date, file_path.
Get(doc, key, default) == IF key \in DOMAIN doc THEN doc[key] ELSE default

UNKNOWN == <<"unknown">>

\* Lines 69-80: the chunk dictionaries of one document, the first of them
\* numbered first.
ChunkDicts(doc, first, size, overlap) ==
    LET chunks == split_text(Get(doc, "content", <<>>), size, overlap) IN
    [i \in 1..Len(chunks) |->
        [content |-> chunks[i],
         chunk_id |-> first + i - 1,
         ticker |-> Get(doc, "ticker", UNKNOWN),
         filing_date |-> Get(doc, "filing_date", UNKNOWN),
         source_file |-> Get(doc, "file_path", UNKNOWN)]]

\* Lines 56-83 with one numbering running over all the documents.
RECURSIVE RunningChunks(_, _, _, _)
RunningChunks(documents, first, size, overlap) ==
    IF Len(documents) = 0 THEN <<>>
    ELSE LET here == ChunkDicts(Head(documents), first, size, overlap) IN
         here \o RunningChunks(Tail(documents), first + Len(here), size, overlap)

split_documents_running_ids(documents, size, overlap) ==
    RunningChunks(documents, 0, size, overlap)

\* all_chunks after the appends of line 80: the lists, one after another.
RECURSIVE Concat(_)
Concat(lists) ==
    IF Len(lists) = 0 THEN <<>> ELSE Head(lists) \o Concat(Tail(lists))

\* Lines 56-83.
split_documents(documents, size, overlap) ==
    Concat([d \in 1..Len(documents) |-> ChunkDicts(documents[d], 0, size, overlap)])

(***************************************************************************)
(* The retrieval facade as a state machine,                                *)
(* src/rag_engine/vector_store.py.  Its calls are made one after another.  *)
(* SpecIndex follows the calls that write the index: add_documents, batch  *)
(* by batch and once per behaviour, and clear_collection.  SpecFacade      *)
(* follows one call that reads the index, over the indexes of the tools.   *)
(***************************************************************************)
batch_size == 10
\* time.sleep(2.5) and time.sleep(15), in tenths of a second.
BATCH_PAUSE == 25
RETRY_PAUSE == 150

PyNone == <<"None">>

\* Line 116 retrying whatever the failure.
IsUpsertQuotaErrorAnyError(e) == TRUE

\* Line 116 with the patterns of the orchestrator (financial_agent.py:213,
\* 260-262).
IsUpsertQuotaErrorLikeOrchestrator(e) == IsRateLimitError(e)

\* Line 116: "429" in str(e)
IsUpsertQuotaError(e) == Contains(e, <<"4", "2", "9">>)

\* The failures of vector_store.add_texts.
UpsertErrors ==
    { <<"4","2","9"," ","R","e","s","o","u","r","c","e"," ","E","x","h","a","u","s","t","e","d">>,
      <<"Q","u","o","t","a"," ","e","x","c","e","e","d","e","d">>,
      <<"R","E","S","O","U","R","C","E","_","E","X","H","A","U","S","T","E","D">>,
      <<"r","a","t","e"," ","l","i","m","i","t">>,
      <<"d","i","s","k"," ","f","u","l","l">> }

UpsertOutcomes == { Return(PyNone) } \cup { Raise(e) : e \in UpsertErrors }

\* The documents add_documents is given.
LongDoc ==
    [content |-> <<"a","b","c","d","e","f","g","h","i","j","k","l">>,
     ticker |-> <<"A">>, filing_date |-> <<"2022-10-28">>, file_path |-> <<"/a.txt">>]
ShortDoc ==
    [content |-> <<"m","s"," ","f","t">>,
     ticker |-> <<"M">>, filing_date |-> <<"2022-07-30">>, file_path |-> <<"/m.txt">>]
EmptyDoc ==
    [content |-> <<>>,
     ticker |-> <<"E">>, filing_date |-> <<"2021-01-01">>, file_path |-> <<"/e.txt">>]
BareDoc == [content |-> <<"x","y">>]
NoContentDoc == [ticker |-> <<"N">>]

AddInputs ==
    { <<>>, <<EmptyDoc>>, <<NoContentDoc, EmptyDoc>>, <<ShortDoc>>, <<LongDoc>>,
      <<ShortDoc, EmptyDoc, BareDoc>>, <<BareDoc, ShortDoc>>,
      <<LongDoc, ShortDoc>>, <<LongDoc, LongDoc>> }

\* Lines 101-102 with every text of the batch given the metadata of the
\* batch's first chunk.
BatchFirstMetadata(chunks, i, n) ==
    LET last == IF i + n < Len(chunks) THEN i + n ELSE Len(chunks) IN
    [j \in 1..(last - i) |->
        [content |-> chunks[i + j].content,
         ticker |-> chunks[i + 1].ticker,
         filing_date |-> chunks[i + 1].filing_date,
         chunk_id |-> chunks[i + 1].chunk_id,
         source_file |-> chunks[i + 1].source_file]]

\* texts[i:i + n] and metadatas[i:i + n] of lines 101-102, as the records
\* add_texts writes.  i is zero-based.
Batch(chunks, i, n) ==
    LET last == IF i + n < Len(chunks) THEN i + n ELSE Len(chunks) IN
    [j \in 1..(last - i) |->
        [content |-> chunks[i + j].content,
         ticker |-> chunks[i + j].ticker,
         filing_date |-> chunks[i + j].filing_date,
         chunk_id |-> chunks[i + j].chunk_id,
         source_file |-> chunks[i + j].source_file]]

Upsert(i, n, try, out) == [offset |-> i, size |-> n, try |-> try, out |-> out]
Pause(tenths, i) == [tenths |-> tenths, offset |-> i]

\* No call of the facade is under way.
FacadeIdle == add.pc \in {"idle", "done"}

\* Most clear_collection calls made in a row.
MaxClears == 2

InitFacade ==
    /\ now = StartTime
    /\ collection \in ToolCollections
    /\ last_api_call_time = 0
    /\ pc = [c \in Callers |-> "idle"]
    /\ question = [c \in Callers |-> <<>>]
    /\ attempt = [c \in Callers |-> 0]
    /\ result = [c \in Callers |-> NoOutcome]
    /\ queries = [c \in Callers |-> 0]
    /\ invocations = [c \in Callers |-> 0]
    /\ sleeps = [c \in Callers |-> <<>>]
    /\ paced = [c \in Callers |-> NoPacing]
    /\ served = [c \in Callers |-> <<>>]
    /\ lastSvc = [c \in Callers |-> NoOutcome]
    /\ indexSeen = [c \in Callers |-> NotSeen]
    /\ lastCallAt = -1
    /\ toolLog = NoTool
    /\ facadeLog = NoFacade
    /\ add = NoAdd
    /\ lastWriter = 0
    /\ unitLog = NoUnit

\* add_documents(documents), lines 66-98: up to the start of the batch loop.
AddBegin(documents) ==
    /\ add.pc = "idle"
    /\ LET chunks == IF Len(documents) = 0 THEN <<>>
                     ELSE split_documents(documents, ModelChunkSize, ModelChunkOverlap)
       IN add' = [NoAdd EXCEPT
                     !.documents = documents,
                     !.chunks = chunks,
                     !.before = collection,
                     !.pc = IF Len(chunks) = 0 THEN "done" ELSE "batch",
                     !.result = IF Len(chunks) = 0 THEN Return(PyNone) ELSE NoOutcome]
    /\ facadeLog' = [op |-> "add_documents"]
    /\ UNCHANGED << collection, orchVars, toolLog, unitLog >>

\* The loop goes on to the batch after the one at add.i, or the call returns.
Advance(a) ==
    IF a.i + batch_size < Len(a.chunks)
    THEN [a EXCEPT !.i = @ + batch_size, !.pc = "batch"]
    ELSE [a EXCEPT !.pc = "done", !.result = Return(PyNone)]

\* Lines 100-121: the batch at add.i is written; out is what add_texts did.
AddBatch(out) ==
    LET batch == Batch(add.chunks, add.i, batch_size)
        logged == [add EXCEPT !.upserts = Append(@, Upsert(add.i, Len(batch), "first", out))]
    IN /\ add.pc = "batch"
       /\ IF out.kind = "return"
          THEN /\ collection' = collection \o batch
               /\ add' = Advance([logged EXCEPT
                              !.sleeps = Append(@, Pause(BATCH_PAUSE, add.i))])
          ELSE IF IsUpsertQuotaError(out.value)
          THEN /\ add' = [logged EXCEPT
                              !.sleeps = Append(@, Pause(RETRY_PAUSE, add.i)),
                              !.pc = "retry"]
               /\ UNCHANGED collection
          ELSE /\ add' = [logged EXCEPT !.pc = "done", !.result = out]
               /\ UNCHANGED collection
       /\ UNCHANGED << orchVars, toolLog, facadeLog, unitLog >>

\* Line 119: the batch at add.i is written again, inside the handler.
AddRetry(out) ==
    LET batch == Batch(add.chunks, add.i, batch_size)
        logged == [add EXCEPT !.upserts = Append(@, Upsert(add.i, Len(batch), "retry", out))]
    IN /\ add.pc = "retry"
       /\ IF out.kind = "return"
          THEN /\ collection' = collection \o batch
               /\ add' = Advance(logged)
          ELSE /\ add' = [logged EXCEPT !.pc = "done", !.result = out]
               /\ UNCHANGED collection
       /\ UNCHANGED << orchVars, toolLog, facadeLog, unitLog >>

FacadeEnvs(col) ==
    [countFails : BOOLEAN, storeFails : BOOLEAN, fault : {FALSE},
     rank : Rankings(Len(col))]

FacadeQueries == { <<"r","e","v">> }
FacadeKs == {0, 1, 3}
FacadeTickers == { <<"A">>, <<"M">>, <<"Z">> }

\* get_document_count() and has_documents(), lines 182-199.
FacadeCount(countFails) ==
    /\ facadeLog = NoFacade
    /\ facadeLog' = [op |-> "get_document_count", col |-> collection,
                     countFails |-> countFails,
                     out |-> get_document_count(collection, countFails),
                     has |-> has_documents(collection, countFails)]
    /\ UNCHANGED << collection, orchVars, toolLog, add, unitLog >>

\* search(query, k, filter_dict), lines 125-155.
FacadeSearch(query, k, filter, env) ==
    /\ facadeLog = NoFacade
    /\ LET run == search_run(collection, query, k, filter, env) IN
       facadeLog' = [op |-> "search", col |-> collection, query |-> query, k |-> k,
                     filter |-> filter, env |-> env,
                     out |-> search(collection, query, k, filter, env),
                     issued |-> run.issued]
    /\ UNCHANGED << collection, orchVars, toolLog, add, unitLog >>

\* search_by_ticker(query, ticker, k), lines 157-159.
FacadeSearchByTicker(query, ticker, k, env) ==
    /\ facadeLog = NoFacade
    /\ LET run == search_run(collection, query, k, TickerFilter(ticker), env) IN
       facadeLog' = [op |-> "search_by_ticker", col |-> collection, query |-> query,
                     k |-> k, filter |-> TickerFilter(ticker), env |-> env,
                     out |-> search_by_ticker(collection, query, ticker, k, env),
                     issued |-> run.issued]
    /\ UNCHANGED << collection, orchVars, toolLog, add, unitLog >>

\* get_context_for_query(query, k), lines 161-180.
FacadeContext(query, k, env) ==
    /\ facadeLog = NoFacade
    /\ facadeLog' = [op |-> "get_context_for_query", col |-> collection,
                     query |-> query, k |-> k, env |-> env,
                     out |-> get_context_for_query(collection, query, k, env)]
    /\ UNCHANGED << collection, orchVars, toolLog, add, unitLog >>

\* What clear_collection leaves in the index, lines 203-221.  The database
\* is persisted: when delete_collection raised (swallowed, lines 206-209),
\* _initialize_vector_store opens the collection of the same name again,
\* with its records.  When _initialize_vector_store raises, the handler
\* removes the database directory; self.vector_store is then the old
\* object, over a collection that is gone.
clear_collection(col, deleteFails, initFails, fallbackFails) ==
    IF ~initFails
    THEN [out |-> Return(PyNone), cols |-> { IF deleteFails THEN col ELSE <<>> }]
    ELSE IF fallbackFails
    THEN [out |-> Raise(<<"rmtree failure">>),
          cols |-> { IF deleteFails THEN col ELSE <<>> }]
    ELSE [out |-> Return(PyNone),
          cols |-> IF deleteFails THEN { col, <<>> } ELSE { <<>> }]

\* clear_collection(), lines 201-221.
ClearCollection(deleteFails, initFails, fallbackFails) ==
    /\ FacadeIdle
    /\ facadeLog.op = "clear_collection" => facadeLog.clears < MaxClears
    /\ LET done == clear_collection(collection, deleteFails, initFails, fallbackFails) IN
       /\ collection' \in done.cols
       /\ facadeLog' = [op |-> "clear_collection", col |-> collection,
                        deleteFails |-> deleteFails, initFails |-> initFails,
                        fallbackFails |-> fallbackFails, out |-> done.out,
                        clears |-> IF facadeLog.op = "clear_collection"
                                   THEN facadeLog.clears + 1 ELSE 1]
    /\ UNCHANGED << orchVars, toolLog, add, unitLog >>

NextIndex ==
    \/ \E documents \in AddInputs : AddBegin(documents)
    \/ \E out \in UpsertOutcomes : AddBatch(out)
    \/ \E out \in UpsertOutcomes : AddRetry(out)
    \/ \E deleteFails \in BOOLEAN, initFails \in BOOLEAN, fallbackFails \in BOOLEAN :
          ClearCollection(deleteFails, initFails, fallbackFails)

SpecIndex == InitFacade /\ [][NextIndex]_vars

NextFacade ==
    \/ \E countFails \in BOOLEAN : FacadeCount(countFails)
    \/ \E query \in FacadeQueries, k \in FacadeKs, env \in FacadeEnvs(collection),
          filter \in {NoFilter} \cup { TickerFilter(t) : t \in FacadeTickers } :
          FacadeSearch(query, k, filter, env)
    \/ \E query \in FacadeQueries, k \in FacadeKs, env \in FacadeEnvs(collection),
          ticker \in FacadeTickers : FacadeSearchByTicker(query, ticker, k, env)
    \/ \E query \in FacadeQueries, k \in FacadeKs, env \in FacadeEnvs(collection) :
          FacadeContext(query, k, env)

SpecFacade == InitFacade /\ [][NextFacade]_vars

(***************************************************************************)
(* The chunker's constructor, src/rag_engine/text_splitter.py:19-35.       *)
(***************************************************************************)
CHUNK_SIZE == 1000
CHUNK_OVERLAP == 200

\* An argument left at its default, None.
Omitted == -1

\* Lines 27-28 taking the default only for an argument that is None.
PyOrOnlyNone(value, default) == IF value = Omitted THEN default ELSE value

\* `value or default`: the default for None and for 0 alike.
PyOr(value, default) == IF value = Omitted \/ value = 0 THEN default ELSE value

\* DocumentChunker(chunk_size, chunk_overlap): the attributes it sets, and how
\* the constructor ends: the splitter of the library refuses an overlap
\* larger than the chunk size.
DocumentChunker(chunk_size, chunk_overlap) ==
    LET size == PyOr(chunk_size, CHUNK_SIZE)
        overlap == PyOr(chunk_overlap, CHUNK_OVERLAP)
    IN [chunk_size |-> size, chunk_overlap |-> overlap,
        out |-> IF overlap > size
                THEN Raise(<<"Got a larger chunk overlap than chunk size, should be smaller.">>)
                ELSE Return(PyNone)]

\* The largest chunk size and overlap given to the constructor.
MaxChunkArg == 6

ChunkArgs == {Omitted} \cup 0..MaxChunkArg

(***************************************************************************)
(* The embedder, src/rag_engine/embeddings.py:49-69.  encodes: what the    *)
(* calls of self.model.encode would do, one after another.                 *)
(***************************************************************************)
Embedded(out, calls, pauses) == [out |-> out, calls |-> calls, pauses |-> pauses]

generate_embedding(text, encodes) == Embedded(encodes[1], 1, <<>>)

\* embedding.tolist(): the components of a vector, as written.
EmbeddingVectors == { <<"1.0", "0.0">>, <<"0.6", "0.8">> }
EncodeErrors == { <<"upstream unavailable">> }
EncodeOutcomes ==
    { Return(v) : v \in EmbeddingVectors } \cup { Raise(e) : e \in EncodeErrors }
EmbedTexts == { <<"r","e","v">>, <<>> }

(***************************************************************************)
(* _enhance_query, src/agent/financial_agent.py:276-320.                   *)
(***************************************************************************)
\* any(word in s for word in words)
AnyIn(words, s) == \E i \in 1..Len(words) : Contains(s, words[i])

COMPARISON_WORDS ==
    << <<"c","o","m","p","a","r","e">>, <<"v","e","r","s","u","s">>, <<"v","s">>,
       <<"d","i","f","f","e","r","e","n","c","e">>,
       <<"b","e","t","t","e","r">> >>
REVENUE_WORDS == << <<"r","e","v","e","n","u","e">>, <<"s","a","l","e","s">> >>
INCOME_WORDS ==
    << <<"p","r","o","f","i","t">>, <<"i","n","c","o","m","e">>,
       <<"e","a","r","n","i","n","g","s">> >>
EXPENSE_WORDS == << <<"e","x","p","e","n","s","e">>, <<"c","o","s","t">> >>
MARGIN_WORDS == << <<"m","a","r","g","i","n">> >>
ASSET_WORDS == << <<"a","s","s","e","t">> >>
LIABILITY_WORDS == << <<"l","i","a","b","i","l","i","t","y">>, <<"d","e","b","t">> >>
\* str(year) for year in range(2018, 2026)
YEARS ==
    << <<"2","0","1","8">>, <<"2","0","1","9">>, <<"2","0","2","0">>, <<"2","0","2","1">>,
       <<"2","0","2","2">>, <<"2","0","2","3">>, <<"2","0","2","4">>, <<"2","0","2","5">> >>
FISCAL_WORDS == << <<"f","i","s","c","a","l"," ","y","e","a","r">>, <<"f","y">> >>
QUARTER_WORDS ==
    << <<"q","u","a","r","t","e","r">>, <<"q","1">>, <<"q","2">>, <<"q","3">>, <<"q","4">> >>

HINT_COMPARISON ==
    <<"(","T","h","i","s"," ","i","s"," ","a"," ","c","o","m","p","a","r","i","s","o","n"," ",
      "q","u","e","s","t","i","o","n",")">>

HINT_ANNUAL ==
    <<"(","L","o","o","k","i","n","g"," ","f","o","r"," ","a","n","n","u","a","l"," ","f","i",
      "s","c","a","l"," ","y","e","a","r"," ","d","a","t","a",")">>

HINT_QUARTERLY ==
    <<"(","L","o","o","k","i","n","g"," ","f","o","r"," ","q","u","a","r","t","e","r","l","y",
      " ","d","a","t","a",")">>

\* f"Metrics: {...}"
METRICS_PREFIX ==
    <<"M","e","t","r","i","c","s",":"," ">>

\* Lines 294-306: the metrics detected, in the order of the tests.
Metrics(q_lower) ==
    (IF AnyIn(REVENUE_WORDS, q_lower) THEN << <<"r","e","v","e","n","u","e">> >> ELSE <<>>)
    \o (IF AnyIn(INCOME_WORDS, q_lower) THEN << <<"n","e","t"," ","i","n","c","o","m","e">> >> ELSE <<>>)
    \o (IF AnyIn(EXPENSE_WORDS, q_lower) THEN << <<"e","x","p","e","n","s","e","s">> >> ELSE <<>>)
    \o (IF AnyIn(MARGIN_WORDS, q_lower)
        THEN << <<"p","r","o","f","i","t"," ","m","a","r","g","i","n","s">> >> ELSE <<>>)
    \o (IF AnyIn(ASSET_WORDS, q_lower) THEN << <<"a","s","s","e","t","s">> >> ELSE <<>>)
    \o (IF AnyIn(LIABILITY_WORDS, q_lower)
        THEN << <<"l","i","a","b","i","l","i","t","i","e","s">> >> ELSE <<>>)

\* Lines 287-315: the hints, in the order they are appended.
Enhancements(q_lower) ==
    (IF AnyIn(COMPARISON_WORDS, q_lower) THEN <<HINT_COMPARISON>> ELSE <<>>)
    \o (IF Len(Metrics(q_lower)) > 0
        THEN <<METRICS_PREFIX \o Join(Metrics(q_lower), <<",", " ">>)>> ELSE <<>>)
    \o (IF AnyIn(FISCAL_WORDS, q_lower) \/ AnyIn(YEARS, q_lower)
        THEN <<HINT_ANNUAL>>
        ELSE IF AnyIn(QUARTER_WORDS, q_lower) THEN <<HINT_QUARTERLY>>
        ELSE <<>>)

\* Lines 276-320 with the lower-cased question in the result.
enhance_query_lowercased(q) ==
    LET q_lower == Lower(q)
        enhancements == Enhancements(q_lower)
    IN IF Len(enhancements) > 0
       THEN q_lower \o <<" ">> \o Join(enhancements, <<" ">>)
       ELSE q_lower

\* Lines 276-320.
enhance_query(q) ==
    LET q_lower == Lower(q)
        enhancements == Enhancements(q_lower)
    IN IF Len(enhancements) > 0
       THEN q \o <<" ">> \o Join(enhancements, <<" ">>)
       ELSE q

\* The questions given to _enhance_query: up to MaxWords of these words, with
\* a space between them.
MaxWords == 2
EnhanceWords ==
    { <<"S","a","l","e","s">>, <<"v","s">>, <<"m","a","r","g","i","n">>, <<"Q","1">>,
      <<"2","0","2","2">>, <<"A","A","P","L">>, <<"d","e","b","t">> }
EnhanceQuestions ==
    UNION { { Join(ws, <<" ">>) : ws \in [1..n -> EnhanceWords] } : n \in 0..MaxWords }

(***************************************************************************)
(* One call of the chunker's constructor, of the embedder or of            *)
(* _enhance_query per behaviour: none of them changes the state of the     *)
(* program.                                                                *)
(***************************************************************************)
UnitLogged(log) ==
    /\ unitLog = NoUnit
    /\ unitLog' = log
    /\ UNCHANGED << collection, orchVars, toolLog, facadeLog, add >>

ChunkerInit(chunk_size, chunk_overlap) ==
    UnitLogged([op |-> "DocumentChunker", args |-> <<chunk_size, chunk_overlap>>,
                made |-> DocumentChunker(chunk_size, chunk_overlap)])

GenerateEmbedding(text, encodes) ==
    UnitLogged([op |-> "generate_embedding", text |-> text, encodes |-> encodes,
                done |-> generate_embedding(text, encodes)])

EnhanceQuery(q) ==
    UnitLogged([op |-> "_enhance_query", question |-> q,
                out |-> enhance_query(q),
                again |-> enhance_query(enhance_query(q))])

NextUnits ==
    \/ \E chunk_size \in ChunkArgs, chunk_overlap \in ChunkArgs :
          ChunkerInit(chunk_size, chunk_overlap)
    \/ \E text \in EmbedTexts, encodes \in [1..2 -> EncodeOutcomes] :
          GenerateEmbedding(text, encodes)
    \/ \E q \in EnhanceQuestions : EnhanceQuery(q)

SpecUnits == Init /\ [][NextUnits]_vars

(***************************************************************************)
(* Properties of query().                                                  *)
(***************************************************************************)
\* A question with nothing but whitespace in it.
IsBlank(q) == \A i \in 1..Len(q) : q[i] \in Whitespace

\* The number of entries of a sequence that are in a set.
CountIn(seq, S) == Cardinality({ i \in 1..Len(seq) : seq[i] \in S })

Backoffs(c) == SelectSeq(sleeps[c], LAMBDA z : z.kind = "backoff")
PacingSleeps(c) == SelectSeq(sleeps[c], LAMBDA z : z.kind = "pacing")

\* C1: query() never raises: however the question, the index and the
\* reasoning service behave, a finished query() has returned a non-empty
\* text, and no query() ends with an exception.
C1_QueryNeverRaises ==
    \A c \in Callers :
        /\ result[c].kind # "raise"
        /\ pc[c] = "done" => result[c].kind = "return" /\ Len(result[c].value) > 0

\* C1 witness: the service returned something that is no dict and query()
\* returned the formatted error text.
C1_Witness ==
    /\ pc[1] = "done"
    /\ lastSvc[1] = Return(NoneResponse)
    /\ result[1] = Return(ErrorProcessingQuery(ATTRIBUTE_ERROR_GET))

\* C2: a blank question is answered with the invalid-query message whatever
\* the index holds, a non-blank question asked while the facade reports no
\* documents with the no-documents message, and either way the reasoning
\* service is never invoked and nothing sleeps.
C2_RejectBeforeService ==
    \A c \in Callers :
        pc[c] = "done" =>
            /\ IsBlank(question[c]) =>
                   /\ result[c] = Return(MSG_INVALID_QUERY)
                   /\ invocations[c] = 0 /\ sleeps[c] = <<>>
            /\ (~IsBlank(question[c])
                  /\ (indexSeen[c].size = 0 \/ indexSeen[c].countFails)) =>
                   /\ result[c] = Return(MSG_NO_DOCUMENTS)
                   /\ invocations[c] = 0 /\ sleeps[c] = <<>>

\* C2 witness: a whitespace-only question asked of an empty index.
C2_Witness ==
    /\ pc[1] = "done"
    /\ question[1] = <<" ", " ">>
    /\ indexSeen[1].size = 0
    /\ result[1] = Return(MSG_INVALID_QUERY)
    /\ invocations[1] = 0

\* C3: a query() that passed validation invokes the reasoning service at
\* most MAX_RETRIES times and has no attempt left after that; when every
\* one of MAX_RETRIES invocations failed with a quota-classified error, the
\* result is the exhausted-retries message.
C3_BoundedRetries ==
    \A c \in Callers :
        /\ invocations[c] <= MAX_RETRIES
        /\ pc[c] = "attempt" => invocations[c] < MAX_RETRIES
        /\ (invocations[c] = MAX_RETRIES /\ pc[c] # "invoke") => pc[c] = "done"
        /\ (pc[c] = "done" /\ Len(served[c]) = MAX_RETRIES
              /\ \A i \in 1..MAX_RETRIES : served[c][i] = "quota")
             => result[c] = Return(MSG_RATE_LIMITED)

\* C3 witness: three invocations, each failing with a quota error.
C3_Witness ==
    /\ pc[1] = "done"
    /\ invocations[1] = 3
    /\ served[1] = <<"quota", "quota", "quota">>
    /\ result[1] = Return(MSG_RATE_LIMITED)

\* C4: every quota-classified failure is followed by one backoff sleep, and
\* the sleep after the failure of attempt index i is BASE_WAIT_TIME * 2^i:
\* 60, 120 and 240 seconds for attempts 0, 1 and 2.
C4_BackoffSchedule ==
    \A c \in Callers :
        LET b == Backoffs(c) IN
        /\ Len(b) = CountIn(served[c], {"quota"})
        /\ \A k \in 1..Len(b) :
              /\ b[k].attempt = k - 1
              /\ k <= 3 /\ b[k].seconds = <<60, 120, 240>>[k]

\* C4 witness: the third attempt failed and 240 seconds were slept.
C4_Witness ==
    /\ Len(Backoffs(1)) = 3
    /\ Backoffs(1)[3].seconds = 240

\* The markers of a quota error, and a comparison of letters that ignores
\* case.
QuotaMarkers ==
    { <<"4","2","9">>,
      <<"r","e","s","o","u","r","c","e","_","e","x","h","a","u","s","t","e","d">>,
      <<"q","u","o","t","a">>,
      <<"r","a","t","e"," ","l","i","m","i","t">> }
SameLetter(a, b) ==
    \/ a = b
    \/ \E k \in 1..26 : {a, b} = {UpperCase[k], LowerCase[k]}
HasQuotaMarker(e) ==
    \E m \in QuotaMarkers : \E i \in 1..Len(e) :
        /\ i + Len(m) - 1 <= Len(e)
        /\ \A j \in 1..Len(m) : SameLetter(e[i + j - 1], m[j])

\* C5: an exception of the reasoning service is treated as a quota error
\* exactly when its message contains a marker, letter case ignored; any
\* other exception ends query() at once with the formatted error text, with
\* no backoff sleep and no further invocation.
C5_Classification ==
    \A c \in Callers :
        lastSvc[c].kind = "raise" =>
            LET e == lastSvc[c].value
                class == served[c][Len(served[c])]
            IN /\ Len(served[c]) = invocations[c]
               /\ class = "quota" <=> HasQuotaMarker(e)
               /\ class # "quota" =>
                     /\ pc[c] = "done"
                     /\ result[c] = Return(ErrorProcessingQuery(e))
                     /\ Len(Backoffs(c)) = Len(served[c]) - 1
                     /\ \A k \in 1..Len(served[c]) - 1 : served[c][k] = "quota"

\* C5 witness: a marker in capitals is a quota error, and an attempt after
\* it failed fatally.
C5_Witness ==
    /\ lastSvc[1] = Raise(<<"r","a","t","e","-","l","i","m","i","t">>)
    /\ served[1] = <<"quota", "fatal">>
    /\ pc[1] = "done"

\* C6: before each attempt the pacer sleeps exactly
\* max(0, MIN_WAIT_BETWEEN_CALLS - elapsed), elapsed being the time since the
\* last call of the reasoning service began: 5 seconds after it the sleep is
\* 5 seconds, 10 seconds or more after it, or before the first call ever,
\* there is no sleep.
C6_PacingWait ==
    \A c \in Callers :
        paced[c] # NoPacing =>
            LET elapsed == paced[c].current_time - paced[c].last_call
                due == IF paced[c].last_call = -1 \/ elapsed >= 10 THEN 0
                       ELSE 10 - elapsed
                mine == SelectSeq(PacingSleeps(c), LAMBDA z : z.attempt = paced[c].attempt)
            IN /\ paced[c].wait = due
               /\ elapsed = 5 => due = 5
               /\ IF due = 0 THEN mine = <<>>
                  ELSE Len(mine) = 1 /\ mine[1].seconds = due

\* C6 witness: a call made 5 seconds after the previous one slept 5 seconds.
C6_Witness ==
    /\ paced[1].last_call # -1
    /\ paced[1].current_time - paced[1].last_call = 5
    /\ paced[1].wait = 5
    /\ PacingSleeps(1) = <<[kind |-> "pacing", seconds |-> 5, attempt |-> 0]>>

(***************************************************************************)
(* Properties of response extraction.                                      *)
(***************************************************************************)
\* The message list of the response caller c's last invoke returned.
MessagesOf(c) ==
    IF lastSvc[c].value.hasMessages THEN lastSvc[c].value.messages ELSE <<>>

\* query() of caller c ended on a response that is a dict and whose
\* assistant messages all carry a content attribute.
Extracted(c) ==
    /\ pc[c] = "done"
    /\ lastSvc[c].kind = "return"
    /\ lastSvc[c].value.shape = "dict"
    /\ \A i \in 1..Len(MessagesOf(c)) : MessagesOf(c)[i].hasContent

\* A content that is not empty after trimming: a string with a character
\* that is no whitespace, or a list with a fragment in it.
NonEmptyContent(content) ==
    IF content.shape = "str"
    THEN \E i \in 1..Len(content.text) : content.text[i] \notin Whitespace
    ELSE Len(content.parts) > 0

\* The positions of the assistant messages with non-empty content.
Answering(ms) == { i \in 1..Len(ms) : ms[i].type = "ai" /\ NonEmptyContent(ms[i].content) }

Latest(S) == CHOOSE i \in S : \A j \in S : j <= i

\* C7: the answer is the content of the latest assistant message whose
\* content is not empty after trimming: assistant messages after it with
\* empty or whitespace-only content are passed over, a message that is not
\* an assistant's is never the answer, and a string content is returned as
\* it is, untrimmed.
C7_LatestAssistantMessage ==
    \A c \in Callers :
        (Extracted(c) /\ Answering(MessagesOf(c)) # {}) =>
            LET ms == MessagesOf(c)
                m == ms[Latest(Answering(ms))]
            IN /\ result[c].kind = "return"
               /\ result[c].value \notin {MSG_NO_AI_CONTENT, MSG_NO_MESSAGES}
               /\ m.content.shape = "str" => result[c].value = m.content.text
               /\ \A i \in 1..Len(ms) :
                     (ms[i].type # "ai" /\ ms[i].content.text # m.content.text)
                        => result[c].value # ms[i].content.text

\* C7 witness: the last assistant message is whitespace only, and the padded
\* content of the one before it is returned unchanged.
C7_Witness ==
    /\ pc[1] = "done"
    /\ lastSvc[1] = Return(DictResponse(
           <<Message("ai", StrContent(<<" ", "o", "k", " ">>)),
             Message("ai", StrContent(<<" ", " ">>))>>))
    /\ result[1] = Return(<<" ", "o", "k", " ">>)

\* The texts of the fragments of a list content, concatenated in order.
RECURSIVE FragmentTexts(_)
FragmentTexts(parts) ==
    IF Len(parts) = 0 THEN <<>> ELSE Head(parts).text \o FragmentTexts(Tail(parts))

\* C8: when the content of the answering assistant message is a list of
\* fragments, query() returns the texts of the fragments concatenated in
\* order, and nothing else.
C8_FragmentsConcatenated ==
    \A c \in Callers :
        (Extracted(c) /\ Answering(MessagesOf(c)) # {}) =>
            LET ms == MessagesOf(c)
                m == ms[Latest(Answering(ms))]
            IN m.content.shape = "list" =>
                   result[c] = Return(FragmentTexts(m.content.parts))

\* C9 as stated: a response with no assistant message of non-empty content
\* gets the one fallback message, that of line 254.
C9_OneFallbackMessage ==
    \A c \in Callers :
        (Extracted(c) /\ Answering(MessagesOf(c)) = {}) =>
            result[c] = Return(MSG_NO_AI_CONTENT)

\* C9, amended: a response with no assistant message of non-empty content
\* gets a fixed message that suggests rephrasing, the one of line 254 when
\* the response has messages and the one of line 257 when it has none, and
\* query() ends there, with no further attempt.
C9_FallbackMessages ==
    \A c \in Callers :
        (Extracted(c) /\ Answering(MessagesOf(c)) = {}) =>
            /\ result[c] = Return(IF Len(MessagesOf(c)) > 0
                                  THEN MSG_NO_AI_CONTENT ELSE MSG_NO_MESSAGES)
            /\ served[c][Len(served[c])] = "ok"
            /\ invocations[c] = Len(served[c])
            /\ Len(sleeps[c]) = Len(PacingSleeps(c)) + Len(served[c]) - 1

\* C9 witness: a human message and an assistant message with empty content.
C9_Witness ==
    /\ pc[1] = "done"
    /\ lastSvc[1] = Return(DictResponse(
           <<Message("human", StrContent(<<"Q", "?">>)),
             Message("ai", StrContent(<<>>))>>))
    /\ result[1] = Return(MSG_NO_AI_CONTENT)
    /\ invocations[1] = 1

(***************************************************************************)
(* Properties of the retrieval tools.                                      *)
(***************************************************************************)
ToolErrorPrefix ==
    [search_financial_filings |-> <<"Error searching filings: ">>,
     search_ticker_specific |-> <<"Error searching for ticker: ">>,
     compare_companies |-> <<"Error comparing companies: ">>]

\* C10: each retrieval tool returns a text whatever its input and never
\* raises to the reasoning loop: when a call of the retrieval facade raises,
\* the tool returns its 'Error ...' text with the message of the exception.
C10_ToolsNeverRaise ==
    toolLog.tool # "none" =>
        /\ toolLog.out.kind = "return"
        /\ (toolLog.env.fault /\ Len(toolLog.searches) > 0) =>
               toolLog.out.value = ToolErrorPrefix[toolLog.tool] \o FACADE_ERROR

\* C10 witness: the facade raised under a well-formed comparison and the
\* tool returned its error text.
C10_Witness ==
    /\ toolLog.tool = "compare_companies"
    /\ toolLog.env.fault
    /\ Len(toolLog.searches) = 1
    /\ toolLog.out = Return(<<"Error comparing companies: ">> \o FACADE_ERROR)

\* The tool saw an index with documents: has_documents() was true.
DocumentsIndexed == Len(collection) > 0 /\ ~toolLog.env.countFails

\* The text before the i-th character and the text from the j-th on.
Before(text, i) == SubSeq(text, 1, i - 1)
From(text, j) == SubSeq(text, j, Len(text))

\* The places where the marker 'query:' begins in a text.
MarkerPlaces(text) == { i \in 1..Len(text) : MatchAt(text, QUERY_MARKER, i) }

\* A text with its 'ticker:' prefix removed, whitespace trimmed.
WithoutTickerPrefix(text) ==
    LET t == Strip(text) IN
    IF MatchAt(t, TICKER_PREFIX, 1) THEN Strip(From(t, Len(TICKER_PREFIX) + 1)) ELSE t

\* C11: with documents indexed, an input of the search-by-ticker tool that
\* contains 'query:' is searched with ticker = the text before the marker
\* without its 'ticker:' prefix, trimmed, and query = the whole text after
\* the marker, trimmed (the marker being its first or its last occurrence).
C11_TickerParsing ==
    (toolLog.tool = "search_ticker_specific" /\ DocumentsIndexed
        /\ MarkerPlaces(toolLog.input) # {}) =>
        \E i \in MarkerPlaces(toolLog.input) :
            toolLog.searches =
                <<SearchCall(Strip(From(toolLog.input, i + Len(QUERY_MARKER))),
                             WithoutTickerPrefix(Before(toolLog.input, i)), 2)>>

\* C11 on inputs with one marker: 'ticker:A query:rev' is searched as ticker
\* 'A', query 'rev'.
C11_SingleMarkerParsed ==
    /\ toolLog.tool = "search_ticker_specific"
    /\ DocumentsIndexed
    /\ toolLog.input = <<"t","i","c","k","e","r",":","A"," ","q","u","e","r","y",":","r","e","v">>
    /\ toolLog.searches = <<SearchCall(<<"r","e","v">>, <<"A">>, 2)>>

\* C12: with documents indexed, an input without the marker 'query:' makes
\* the search-by-ticker tool and the compare tool return their fixed
\* 'Invalid format' message: the tool returns, and asks the facade nothing.
C12_InvalidFormat ==
    (toolLog.tool \in {"search_ticker_specific", "compare_companies"}
        /\ DocumentsIndexed /\ MarkerPlaces(toolLog.input) = {}) =>
        /\ toolLog.out =
               Return(IF toolLog.tool = "compare_companies"
                      THEN TOOL_INVALID_COMPARE_FORMAT ELSE TOOL_INVALID_TICKER_FORMAT)
        /\ toolLog.searches = <<>>

\* C12 witness: the search-by-ticker tool is given 'ticker:A rev' over an
\* index with documents.
C12_Witness ==
    /\ toolLog.tool = "search_ticker_specific"
    /\ DocumentsIndexed
    /\ toolLog.input = <<"t","i","c","k","e","r",":","A"," ","r","e","v">>
    /\ toolLog.out = Return(TOOL_INVALID_TICKER_FORMAT)

\* The whitespace-separated tokens of a text that begin with 'ticker' and
\* have a colon: ticker1:AAPL, ticker2:MSFT.
TickerTokens(text) ==
    SelectSeq(SplitWords(text),
              LAMBDA w : MatchAt(w, TICKER_WORD, 1) /\ Contains(w, <<":">>))

\* The text after the first colon of a token.
AfterColon(w) == From(w, Find(w, <<":">>) + 1)

\* C13: with documents indexed, a compare input that contains 'query:' and
\* fewer than two ticker-prefixed tokens gets the 'Need at least two
\* tickers' message and no search; with two or more, the first two tickers
\* are searched in order.
C13_TwoTickers ==
    (toolLog.tool = "compare_companies" /\ DocumentsIndexed
        /\ MarkerPlaces(toolLog.input) # {}) =>
        LET tokens == TickerTokens(toolLog.input) IN
        IF Len(tokens) < 2
        THEN /\ toolLog.out = Return(TOOL_NEED_TWO_TICKERS)
             /\ toolLog.searches = <<>>
        ELSE /\ Len(toolLog.searches) >= 1
             /\ toolLog.searches[1].ticker = AfterColon(tokens[1])
             /\ Len(toolLog.searches) = 2 =>
                    toolLog.searches[2].ticker = AfterColon(tokens[2])

(***************************************************************************)
(* Properties of the retrieval facade.                                     *)
(***************************************************************************)
\* C14: get_document_count() never raises: it returns the number of records
\* of the index, and 0 when the count of the collection fails;
\* has_documents() returns whether that count is positive, and so never
\* raises either.
C14_CountNeverRaises ==
    facadeLog.op = "get_document_count" =>
        /\ facadeLog.out =
               Return(IF facadeLog.countFails THEN 0 ELSE Len(facadeLog.col))
        /\ facadeLog.has = Return(facadeLog.out.value > 0)

\* C14 witness: the count of an index with records fails.
C14_Witness ==
    /\ facadeLog.op = "get_document_count"
    /\ Len(facadeLog.col) = 2
    /\ facadeLog.countFails
    /\ facadeLog.out = Return(0)
    /\ facadeLog.has = Return(FALSE)

\* C15: whenever has_documents() is false (the index is empty or its count
\* fails), search and search_by_ticker return an empty list, issue no
\* similarity query to the index and do not raise, whatever the query, k
\* and ticker filter.
C15_SearchGuarded ==
    (facadeLog.op \in {"search", "search_by_ticker"}
        /\ (Len(facadeLog.col) = 0 \/ facadeLog.env.countFails)) =>
        /\ facadeLog.out = Return(<<>>)
        /\ facadeLog.issued = <<>>

\* C15 witness: search_by_ticker over an index whose records match the
\* ticker, while the count fails.
C15_Witness ==
    /\ facadeLog.op = "search_by_ticker"
    /\ Len(facadeLog.col) > 0
    /\ facadeLog.col[1].ticker = facadeLog.filter.ticker
    /\ facadeLog.env.countFails /\ ~facadeLog.env.storeFails
    /\ facadeLog.out = Return(<<>>)
    /\ facadeLog.issued = <<>>

\* The labeled block of the i-th result.
LabeledBlock(i, r) ==
    <<"[Source ", Digits[i], " - ">> \o r.metadata.ticker \o <<" - ">>
        \o r.metadata.filing_date \o <<"]", "\n">> \o r.content \o <<"\n">>

\* C16: get_context_for_query gives the no-documents message when
\* has_documents() is false, the no-relevant-context message when the search
\* yields nothing, and otherwise the labeled blocks of the results of the
\* search, one per result, numbered from 1, in the order of the search.
C16_ContextOutcomes ==
    facadeLog.op = "get_context_for_query" =>
        LET has == Len(facadeLog.col) > 0 /\ ~facadeLog.env.countFails
            results == search(facadeLog.col, facadeLog.query, facadeLog.k,
                              NoFilter, facadeLog.env).value
        IN facadeLog.out =
               Return(IF ~has THEN CTX_NO_DOCUMENTS
                      ELSE IF Len(results) = 0 THEN CTX_NO_RELEVANT
                      ELSE Join([i \in 1..Len(results) |-> LabeledBlock(i, results[i])],
                                <<"\n">>))

\* C16 witness: two records, the second the more relevant: its block comes
\* first.
C16_Witness ==
    /\ facadeLog.op = "get_context_for_query"
    /\ Len(facadeLog.col) = 2
    /\ facadeLog.col[1].ticker # facadeLog.col[2].ticker
    /\ facadeLog.env = [countFails |-> FALSE, storeFails |-> FALSE, fault |-> FALSE,
                        rank |-> <<2, 1>>]
    /\ facadeLog.k = 0
    /\ facadeLog.out.kind = "return"
    /\ MatchAt(facadeLog.out.value,
               <<"[Source ", "1", " - ">> \o facadeLog.col[2].ticker, 1)
    /\ Contains(facadeLog.out.value,
                <<"[Source ", "2", " - ">> \o facadeLog.col[1].ticker)

(***************************************************************************)
(* Properties of add_documents, clear_collection and the chunker.          *)
(***************************************************************************)
\* The pauses of a given length that add_documents made after the batch at
\* an offset.
PausesAt(tenths, offset) ==
    { j \in 1..Len(add.sleeps) :
        add.sleeps[j].tenths = tenths /\ add.sleeps[j].offset = offset }

\* The batch at an offset is the last of the call.
FinalBatch(offset) == offset + batch_size >= Len(add.chunks)

\* C17: add_documents writes the chunks in consecutive batches of 10 and
\* makes a quota pause after each batch written except the last one: no
\* quota pause follows the final batch of a call.
C17_NoPauseAfterLastBatch ==
    \A j \in 1..Len(add.upserts) :
        LET u == add.upserts[j] IN
        /\ u.offset % batch_size = 0
        /\ u.size = (IF FinalBatch(u.offset)
                     THEN Len(add.chunks) - u.offset ELSE batch_size)
        /\ (u.try = "first" /\ u.out.kind = "return") =>
               Cardinality(PausesAt(BATCH_PAUSE, u.offset)) =
                   (IF FinalBatch(u.offset) THEN 0 ELSE 1)

\* C17, the batches alone: consecutive batches of 10, the last one shorter.
C17_BatchesOfTen ==
    /\ add.pc = "done" /\ add.result.kind = "return"
    /\ Len(add.chunks) = 15
    /\ Len(add.upserts) = 2
    /\ add.upserts[1].size = 10 /\ add.upserts[2].size = 5

\* An upsert failure that add_documents takes for a quota failure.
QuotaSignaled(e) == Contains(e, <<"4", "2", "9">>)

\* C18: a batch whose first write fails with a quota-signaled error is
\* written once more after a pause of 15 s and never a third time; a failed
\* second write, and a first failure that is not quota-signaled, end the
\* call with that exception, no later batch being written.
C18_RetryOnce ==
    \A j \in 1..Len(add.upserts) :
        LET u == add.upserts[j]
            last == j = Len(add.upserts)
        IN /\ (u.try = "first" /\ u.out.kind = "raise" /\ QuotaSignaled(u.out.value)) =>
                  /\ Cardinality(PausesAt(RETRY_PAUSE, u.offset)) = 1
                  /\ IF last THEN add.pc = "retry"
                     ELSE /\ add.upserts[j + 1].try = "retry"
                          /\ add.upserts[j + 1].offset = u.offset
                          /\ add.upserts[j + 1].size = u.size
           /\ (u.try = "first" /\ u.out.kind = "raise" /\ ~QuotaSignaled(u.out.value)) =>
                  /\ last /\ add.pc = "done" /\ add.result = u.out
                  /\ PausesAt(RETRY_PAUSE, u.offset) = {}
           /\ u.try = "retry" =>
                  /\ j > 1
                  /\ add.upserts[j - 1].try = "first"
                  /\ add.upserts[j - 1].offset = u.offset
                  /\ add.upserts[j - 1].out.kind = "raise"
                  /\ QuotaSignaled(add.upserts[j - 1].out.value)
           /\ (u.try = "retry" /\ u.out.kind = "raise") =>
                  last /\ add.pc = "done" /\ add.result = u.out
           /\ (u.out.kind = "return" /\ ~last) =>
                  /\ add.upserts[j + 1].try = "first"
                  /\ add.upserts[j + 1].offset = u.offset + batch_size

\* C18 witness: the second of three batches fails twice with a quota
\* failure: the call ends with the exception and the third is not written.
C18_Witness ==
    /\ add.pc = "done"
    /\ Len(add.chunks) > 2 * batch_size
    /\ Len(add.upserts) = 3
    /\ add.upserts[1].out.kind = "return"
    /\ add.upserts[2].try = "first" /\ add.upserts[2].offset = batch_size
    /\ add.upserts[2].out.kind = "raise" /\ QuotaSignaled(add.upserts[2].out.value)
    /\ add.upserts[3].try = "retry" /\ add.upserts[3].offset = batch_size
    /\ add.upserts[3].out.kind = "raise"
    /\ add.result = add.upserts[3].out
    /\ Len(collection) = Len(add.before) + batch_size

\* C19: after one or several clear_collection calls in a row the index is
\* empty: get_document_count() is 0, has_documents() is false and search
\* returns an empty list; and a failure to delete the backing collection is
\* not raised to the caller.
C19_ClearEmptiesIndex ==
    facadeLog.op = "clear_collection" =>
        /\ (facadeLog.deleteFails /\ ~facadeLog.initFails) =>
               facadeLog.out.kind = "return"
        /\ facadeLog.out.kind = "return" =>
               /\ get_document_count(collection, FALSE) = Return(0)
               /\ has_documents(collection, FALSE) = Return(FALSE)
               /\ \A rank \in Rankings(Len(collection)) :
                      search(collection, <<"r","e","v">>, 0, NoFilter,
                             [countFails |-> FALSE, storeFails |-> FALSE,
                              fault |-> FALSE, rank |-> rank]) = Return(<<>>)

\* C19 where the backing collection is deleted: two calls in a row leave the
\* index empty.
C19_ClearedTwice ==
    /\ facadeLog.op = "clear_collection"
    /\ facadeLog.clears = 2
    /\ ~facadeLog.deleteFails /\ ~facadeLog.initFails
    /\ Len(add.chunks) > 0
    /\ collection = <<>>

\* The chunks split_text makes of a document.
TextChunks(doc) ==
    split_text(IF "content" \in DOMAIN doc THEN doc.content ELSE <<>>,
               ModelChunkSize, ModelChunkOverlap)

\* The number of chunks of the documents before the d-th.
RECURSIVE ChunksBefore(_, _)
ChunksBefore(documents, d) ==
    IF d <= 1 THEN 0
    ELSE ChunksBefore(documents, d - 1) + Len(TextChunks(documents[d - 1]))

\* A field of a document, or 'unknown'.
FieldOrUnknown(doc, key) == IF key \in DOMAIN doc THEN doc[key] ELSE <<"unknown">>

\* C20: the chunks of split_documents are those of the first document, then
\* those of the second, and so on; the chunks of a document are numbered
\* 0..n-1 in their order, whatever the documents before it; each carries the
\* ticker, filing date and source reference of its document, or 'unknown'
\* for a field the document lacks; a document with empty content has no
\* chunk.
C20_SplitDocuments ==
    add.pc # "idle" =>
        LET docs == add.documents IN
        /\ Len(add.chunks) = ChunksBefore(docs, Len(docs) + 1)
        /\ \A d \in 1..Len(docs) :
               LET texts == TextChunks(docs[d])
                   base == ChunksBefore(docs, d)
               IN /\ ("content" \notin DOMAIN docs[d] \/ Len(docs[d].content) = 0) =>
                         Len(texts) = 0
                  /\ \A i \in 1..Len(texts) :
                         add.chunks[base + i] =
                             [content |-> texts[i],
                              chunk_id |-> i - 1,
                              ticker |-> FieldOrUnknown(docs[d], "ticker"),
                              filing_date |-> FieldOrUnknown(docs[d], "filing_date"),
                              source_file |-> FieldOrUnknown(docs[d], "file_path")]

\* C20 witness: a document, a document with empty content and a document
\* with content only: the chunk of the third is numbered 0 and has 'unknown'
\* for its three fields.
C20_Witness ==
    /\ add.documents = <<ShortDoc, EmptyDoc, BareDoc>>
    /\ Len(add.chunks) = Len(TextChunks(ShortDoc)) + 1
    /\ Len(TextChunks(ShortDoc)) > 1
    /\ add.chunks[Len(add.chunks)].chunk_id = 0
    /\ add.chunks[Len(add.chunks)].ticker = <<"unknown">>
    /\ add.chunks[Len(add.chunks)].source_file = <<"unknown">>
    /\ add.chunks[Len(add.chunks) - 1].chunk_id = Len(TextChunks(ShortDoc)) - 1
    /\ add.chunks[Len(add.chunks) - 1].ticker = <<"M">>

(***************************************************************************)
(* Properties of the chunker's constructor, the embedder and               *)
(* _enhance_query.                                                         *)
(***************************************************************************)
\* C21: DocumentChunker uses exactly the chunk_size and chunk_overlap it is
\* given, 0 included, and the configuration default only for an argument
\* that is omitted; so with overlap < size given, the overlap in effect is
\* not more than the chunk size in effect and the chunker is built.
C21_SuppliedValuesUsed ==
    unitLog.op = "DocumentChunker" =>
        LET size == unitLog.args[1]
            overlap == unitLog.args[2]
            made == unitLog.made
        IN /\ made.chunk_size = (IF size = Omitted THEN CHUNK_SIZE ELSE size)
           /\ made.chunk_overlap = (IF overlap = Omitted THEN CHUNK_OVERLAP ELSE overlap)
           /\ (size # Omitted /\ overlap # Omitted /\ overlap < size) =>
                  /\ made.chunk_overlap <= made.chunk_size
                  /\ made.out.kind = "return"

\* C21 for arguments other than 0: the values given are the values used.
C21_NonZeroArgumentsUsed ==
    /\ unitLog.op = "DocumentChunker"
    /\ unitLog.args = <<5, 2>>
    /\ unitLog.made.chunk_size = 5 /\ unitLog.made.chunk_overlap = 2
    /\ unitLog.made.out.kind = "return"

\* C22: when the first encoding of a text fails, generate_embedding pauses
\* once and encodes once more; it returns the vector of the second encoding
\* when that succeeds, and raises only when the second fails too.
C22_RetryOnce ==
    (unitLog.op = "generate_embedding" /\ unitLog.encodes[1].kind = "raise") =>
        /\ unitLog.done.calls = 2
        /\ Len(unitLog.done.pauses) = 1
        /\ unitLog.encodes[2].kind = "return" => unitLog.done.out = unitLog.encodes[2]
        /\ unitLog.encodes[2].kind = "raise" => unitLog.done.out.kind = "raise"

\* The keywords _enhance_query looks for.
AllKeywords ==
    COMPARISON_WORDS \o REVENUE_WORDS \o INCOME_WORDS \o EXPENSE_WORDS \o MARGIN_WORDS
        \o ASSET_WORDS \o LIABILITY_WORDS \o YEARS \o FISCAL_WORDS \o QUARTER_WORDS

\* C23: _enhance_query returns the question itself when it has none of the
\* keywords, and otherwise the question, a space and hints: the question is
\* an unmodified prefix of what it returns.
C23_EnhancementAdditive ==
    unitLog.op = "_enhance_query" =>
        LET q == unitLog.question
            out == unitLog.out
        IN /\ Len(out) >= Len(q)
           /\ SubSeq(out, 1, Len(q)) = q
           /\ out # q =>
                  /\ Len(out) > Len(q) + 1
                  /\ out[Len(q) + 1] = " "
                  /\ \/ MatchAt(out, HINT_COMPARISON, Len(q) + 2)
                     \/ MatchAt(out, METRICS_PREFIX, Len(q) + 2)
                     \/ MatchAt(out, HINT_ANNUAL, Len(q) + 2)
                     \/ MatchAt(out, HINT_QUARTERLY, Len(q) + 2)
           /\ (out = q) <=> ~AnyIn(AllKeywords, Lower(q))

\* C23 witness: 'Sales vs' gets the comparison hint and the revenue metric.
C23_Witness ==
    /\ unitLog.op = "_enhance_query"
    /\ unitLog.question = <<"S","a","l","e","s"," ","v","s">>
    /\ unitLog.out = unitLog.question \o <<" ">> \o HINT_COMPARISON \o <<" ">>
                         \o METRICS_PREFIX \o <<"r","e","v","e","n","u","e">>

\* C24: enhancing an enhanced question changes nothing:
\* _enhance_query(_enhance_query(q)) = _enhance_query(q).
C24_EnhancementIdempotent ==
    unitLog.op = "_enhance_query" => unitLog.again = unitLog.out

\* C24 on questions without keywords: the second pass changes nothing.
C24_PlainQuestionStable ==
    /\ unitLog.op = "_enhance_query"
    /\ unitLog.question = <<"A","A","P","L">>
    /\ unitLog.out = unitLog.question
    /\ unitLog.again = unitLog.question

(***************************************************************************)
(* Concurrent query() calls.                                               *)
(***************************************************************************)
\* C25: while two query() calls run at once on one agent, the last-call
\* time an invocation reads to decide its pacing sleep (line 219), and
\* overwrites (line 227), is never the one assigned by the other invocation
\* still in its retry loop: each call's pacing state is its own.
C25_PacingStatePrivate ==
    [][\A c \in Callers, d \in Callers :
          (c # d /\ pc[c] = "attempt" /\ pc'[c] = "invoke" /\ InFlight(d))
              => lastWriter # d]_vars

\* The attempt counter is a local of each call: a step of one caller leaves
\* the other caller's counter alone, also while both are in the retry loop.
C25_AttemptCounterPrivate ==
    [][\A c \in Callers, d \in Callers :
          (c # d /\ pc[c] # pc'[c]) => attempt'[d] = attempt[d]]_vars


(***************************************************************************)
(* Backoff and the end of the retry loop.                                  *)
(***************************************************************************)
\* C26: every backoff sleep of a query() is followed by a further attempt:
\* when the call has ended, the backoff slept after attempt index i was
\* followed by the invocation of attempt i + 1, so the call that ends with
\* the exhausted-retries message has slept no backoff after its last attempt.
C26_BackoffThenAttempt ==
    \A c \in Callers :
        pc[c] = "done" =>
            \A k \in 1..Len(Backoffs(c)) : Backoffs(c)[k].attempt + 1 < invocations[c]

\* Short of the last attempt the loop does go from a backoff to the next
\* attempt: a call that ended after two quota failures and an answer.
C26_EarlierBackoffsFollowed ==
    /\ pc[1] = "done"
    /\ served[1] = <<"quota", "quota", "ok">>
    /\ Len(Backoffs(1)) = 2
    /\ invocations[1] = 3

(***************************************************************************)
(* The tools on an empty index.                                            *)
(***************************************************************************)
\* The fixed message a tool gives when the index holds no documents.
NoDocumentsMessage(tool) ==
    IF tool = "compare_companies" THEN TOOL_NO_DOCUMENTS_COMPARE ELSE TOOL_NO_DOCUMENTS

\* C27: in each of the three tools the documents check comes before the
\* input is parsed: on an empty index every input, well-formed or not, gives
\* the tool's fixed no-documents message, and the tool asks no search of the
\* facade.
C27_NoDocumentsFirst ==
    (toolLog.tool # "none" /\ Len(collection) = 0) =>
        /\ toolLog.out = Return(NoDocumentsMessage(toolLog.tool))
        /\ toolLog.searches = <<>>

\* C27 witness: the ticker tool is given an input without "query:" while
\* the index is empty, and answers with the no-documents message.
C27_Witness ==
    /\ Len(collection) = 0
    /\ toolLog.tool = "search_ticker_specific"
    /\ ~Contains(toolLog.input, QUERY_MARKER)
    /\ toolLog.out = Return(TOOL_NO_DOCUMENTS)
    /\ toolLog.searches = <<>>

(***************************************************************************)
(* Spacing of the invocations of sequential queries.                       *)
(***************************************************************************)
\* C28: with query() calls made one after another on one agent, an
\* invocation of the reasoning service starts at least
\* MIN_WAIT_BETWEEN_CALLS seconds after the one before it, be it of the same
\* query or of an earlier one (a sleep lasting what was asked or longer);
\* and the attempt after a backoff sleep takes no pacing sleep.
C28_InvocationSpacing ==
    \A c \in SeqCallers :
        paced[c] # NoPacing =>
            /\ paced[c].last_call # -1 =>
                   lastCallAt - paced[c].last_call >= MIN_WAIT_BETWEEN_CALLS
            /\ paced[c].attempt > 0 => paced[c].wait = 0

\* C28 witness: a query begun 5 seconds after the invocation of the query
\* before it slept 5 seconds, failed on quota, slept the backoff and
\* retried without a pacing sleep, 60 seconds after its first attempt.
C28_Witness ==
    /\ queries[1] = 2
    /\ pc[1] = "invoke"
    /\ sleeps[1] = << [kind |-> "pacing", seconds |-> 5, attempt |-> 0],
                      [kind |-> "backoff", seconds |-> 60, attempt |-> 0] >>
    /\ paced[1].attempt = 1
    /\ paced[1].wait = 0
    /\ lastCallAt - paced[1].last_call = 60

(***************************************************************************)
(* What add_documents leaves in the index.                                 *)
(***************************************************************************)
\* The records of the first n chunks of the call, each with its own
\* metadata.
ChunkRecords(n) ==
    [j \in 1..n |->
        [content |-> add.chunks[j].content,
         ticker |-> add.chunks[j].ticker,
         filing_date |-> add.chunks[j].filing_date,
         chunk_id |-> add.chunks[j].chunk_id,
         source_file |-> add.chunks[j].source_file]]

\* The chunks written so far: all of them when the call returned, those
\* ahead of the failed batch when it raised, those ahead of the batch at
\* hand while it runs.
ChunksWritten ==
    IF add.pc = "done" /\ add.result.kind = "return" THEN Len(add.chunks)
    ELSE IF add.pc = "done" THEN add.upserts[Len(add.upserts)].offset
    ELSE add.i

\* An order of relevance of n records with record p first.
RankFirst(p, n) == [i \in 1..n |-> IF i = 1 THEN p ELSE IF i <= p THEN i - 1 ELSE i]

\* The offsets of the batches of the call.
BatchOffsets == { o \in 0..Len(add.chunks) : o % batch_size = 0 /\ o < Len(add.chunks) }

\* C29: add_documents does not roll back.  While it runs and after it
\* raised on the batch at offset j, the index holds what it held before
\* followed by the records of the chunks ahead of j: the count has grown by
\* their number and a search can return each of them.  After it returned,
\* the index holds one record for every chunk, in order, each with its own
\* metadata, every batch having been written exactly once, and the count
\* has grown by the number of chunks.
C29_PartialWritesStay ==
    (facadeLog.op = "add_documents" /\ add.pc # "idle") =>
        LET n == ChunksWritten
            b == Len(add.before)
        IN /\ collection = add.before \o ChunkRecords(n)
           /\ get_document_count(collection, FALSE) = Return(b + n)
           /\ \A p \in (b + 1)..(b + n) :
                 search(collection, <<"r","e","v">>, 1, NoFilter,
                        [countFails |-> FALSE, storeFails |-> FALSE, fault |-> FALSE,
                         rank |-> RankFirst(p, b + n)])
                   = Return(<< [content |-> add.chunks[p - b].content,
                                metadata |-> [ticker |-> add.chunks[p - b].ticker,
                                              filing_date |-> add.chunks[p - b].filing_date]] >>)
           /\ (add.pc = "done" /\ add.result.kind = "return") =>
                 \A o \in BatchOffsets :
                     Cardinality({ j \in 1..Len(add.upserts) :
                                      /\ add.upserts[j].offset = o
                                      /\ add.upserts[j].out.kind = "return" }) = 1

\* C29 witness: the third of three batches failed on an index that held a
\* record: the call raised and the twenty records of the first two batches
\* are in the index, each batch with metadata of its own.
C29_Witness ==
    /\ facadeLog.op = "add_documents"
    /\ add.pc = "done"
    /\ add.result.kind = "raise"
    /\ add.upserts[Len(add.upserts)].offset = 2 * batch_size
    /\ Len(add.before) > 0
    /\ Len(collection) = Len(add.before) + 2 * batch_size
    /\ add.chunks[1].chunk_id # add.chunks[batch_size + 1].chunk_id

\* Text the orchestrator classifies as a quota failure (line 262) and that
\* has no "429" in it.
QuotaOnlyForOrchestrator(e) == IsRateLimitError(e) /\ ~Contains(e, <<"4", "2", "9">>)

\* C30: add_documents takes a failure for a quota failure only when its
\* text contains "429".  A first write failing with a text that carries
\* another of the orchestrator's quota markers ("quota",
\* "resource_exhausted", "rate limit") ends the call with that exception:
\* the batch is not written again and no pause is made for it.
C30_OtherMarkersNotRetried ==
    \A j \in 1..Len(add.upserts) :
        LET u == add.upserts[j] IN
        (u.try = "first" /\ u.out.kind = "raise" /\ QuotaOnlyForOrchestrator(u.out.value)) =>
            /\ j = Len(add.upserts)
            /\ add.pc = "done"
            /\ add.result = u.out
            /\ \A k \in 1..Len(add.sleeps) : add.sleeps[k].offset # u.offset
            /\ facadeLog.op = "add_documents" =>
                   collection = add.before \o ChunkRecords(u.offset)

\* C30 witness: the first write of the second batch failed with
\* "RESOURCE_EXHAUSTED" and the call ended with it, one pause made in all.
C30_Witness ==
    /\ add.pc = "done"
    /\ Len(add.upserts) = 2
    /\ add.upserts[2].try = "first"
    /\ add.upserts[2].offset = batch_size
    /\ add.upserts[2].out = Raise(<<"R","E","S","O","U","R","C","E","_","E","X","H","A","U","S","T","E","D">>)
    /\ add.result = add.upserts[2].out
    /\ add.sleeps = << Pause(BATCH_PAUSE, 0) >>

=============================================================================
